---------------------------- MODULE Spec2Model ----------------------------
(***************************************************************************)
(* The sorted-set container of src/core/sorted_map.cc: the skiplist + hash *)
(* variant (RdImpl) and the B+tree variant (DfImpl) behind the SortedMap   *)
(* facade.                                                                 *)
(*                                                                         *)
(* Scores are IEEE doubles.  The model keeps the part of the double line   *)
(* the code can tell apart: the finite values 0..MaxScore, the two         *)
(* infinities and NaN.  A member is an sds byte string, modelled as a      *)
(* sequence of byte values and compared the way sdscmp compares.           *)
(***************************************************************************)
EXTENDS Integers, Sequences, FiniteSets, TLC

\* ------------------------------------------------------------------ bounds
MaxScore == 1
MaxCount == 3
MaxNodes == 2

\* ------------------------------------------------------------------ doubles
PosInf == MaxScore + 1
NegInf == 0 - 1
NaN == PosInf + 1
Finite == 0 .. MaxScore
Scores == Finite \cup {PosInf, NegInf}

isnan(x) == x = NaN

\* score += curscore on doubles: inf + (-inf) is NaN, an infinity absorbs, and a
\* finite sum beyond the largest finite value overflows to +inf.
FAdd(a, b) ==
  IF isnan(a) \/ isnan(b) THEN NaN
  ELSE IF (a = PosInf /\ b = NegInf) \/ (a = NegInf /\ b = PosInf) THEN NaN
  ELSE IF a = PosInf \/ b = PosInf THEN PosInf
  ELSE IF a = NegInf \/ b = NegInf THEN NegInf
  ELSE IF a + b > MaxScore THEN PosInf
  ELSE a + b

\* ------------------------------------------------------------------ members
Members == { <<>>, <<1, 2>>, <<2>> }

Min2(a, b) == IF a < b THEN a ELSE b

RECURSIVE memcmp(_, _, _, _)
memcmp(a, b, i, n) ==
  IF i > n THEN 0
  ELSE IF a[i] < b[i] THEN 0 - 1
  ELSE IF a[i] > b[i] THEN 1
  ELSE memcmp(a, b, i + 1, n)

\* sdscmp: memcmp over the common prefix, then the longer string is greater.
sdscmp(a, b) ==
  LET c == memcmp(a, b, 1, Min2(Len(a), Len(b)))
  IN IF c /= 0 THEN c
     ELSE IF Len(a) > Len(b) THEN 1
     ELSE IF Len(a) < Len(b) THEN 0 - 1
     ELSE 0

\* ------------------------------------------------------------------ flags
ZADD_IN_INCR == "INCR"
ZADD_IN_NX == "NX"
ZADD_IN_XX == "XX"
ZADD_IN_GT == "GT"
ZADD_IN_LT == "LT"
InFlags == SUBSET {ZADD_IN_INCR, ZADD_IN_NX, ZADD_IN_XX, ZADD_IN_GT, ZADD_IN_LT}

ZADD_OUT_NOP == "NOP"
ZADD_OUT_NAN == "NAN"
ZADD_OUT_ADDED == "ADDED"
ZADD_OUT_UPDATED == "UPDATED"

\* zrangespec {min, max, minex, maxex}
RangeSpecs == [min : Scores, max : Scores, minex : BOOLEAN, maxex : BOOLEAN]

\* ------------------------------------------------------------------ sequences
RemoveAt(s, i) == [j \in 1 .. (Len(s) - 1) |-> IF j < i THEN s[j] ELSE s[j + 1]]

InsertAt(s, i, x) ==
  [j \in 1 .. (Len(s) + 1) |-> IF j < i THEN s[j] ELSE IF j = i THEN x ELSE s[j - 1]]

\* b[j] says whether a walk standing before element j steps over it; the walk
\* starts at i and rests at the last element it stepped over.
RECURSIVE Walk(_, _)
Walk(b, i) ==
  IF i < Len(b) /\ b[i + 1] THEN Walk(b, i + 1) ELSE i

\* ------------------------------------------------------------------ zskiplist
\* A skiplist is the sequence of its level-0 nodes, head first; a node is
\* [score, ele]; a node pointer is its position, NULL is 0.

zslInsert(zsl, score, ele) ==
  LET Before(x) == x.score < score \/ (x.score = score /\ sdscmp(x.ele, ele) < 0)
      pos == Walk([j \in 1 .. Len(zsl) |-> Before(zsl[j])], 0)
  IN InsertAt(zsl, pos + 1, [score |-> score, ele |-> ele])

\* position of the node zslDelete / zslUpdateScore act on, 0 when not found
zslFind(zsl, score, ele) ==
  LET Before(x) == x.score < score \/ (x.score = score /\ sdscmp(x.ele, ele) < 0)
      pos == Walk([j \in 1 .. Len(zsl) |-> Before(zsl[j])], 0)
  IN IF pos < Len(zsl) /\ zsl[pos + 1].score = score /\ sdscmp(zsl[pos + 1].ele, ele) = 0
     THEN pos + 1 ELSE 0

zslDelete(zsl, score, ele) ==
  LET x == zslFind(zsl, score, ele)
  IN IF x = 0 THEN zsl ELSE RemoveAt(zsl, x)

zslUpdateScore(zsl, curscore, ele, newscore) ==
  LET x == zslFind(zsl, curscore, ele)
      inplace == /\ (x = 1 \/ zsl[x - 1].score < newscore)
                 /\ (x = Len(zsl) \/ zsl[x + 1].score > newscore)
  IN IF x = 0 THEN zsl
     ELSE IF inplace THEN [zsl EXCEPT ![x].score = newscore]
     ELSE zslInsert(RemoveAt(zsl, x), newscore, ele)

\* 1-based rank of (score, ele), 0 when there is no such node
zslGetRank(zsl, score, ele) ==
  LET UpTo(x) == x.score < score \/ (x.score = score /\ sdscmp(x.ele, ele) <= 0)
      rank == Walk([j \in 1 .. Len(zsl) |-> UpTo(zsl[j])], 0)
  IN IF rank > 0 /\ sdscmp(zsl[rank].ele, ele) = 0 THEN rank ELSE 0

zslValueGteMin(value, spec) == IF spec.minex THEN value > spec.min ELSE value >= spec.min

zslValueLteMax(value, spec) == IF spec.maxex THEN value < spec.max ELSE value <= spec.max

zslIsInRange(zsl, range) ==
  /\ ~(range.min > range.max \/ (range.min = range.max /\ (range.minex \/ range.maxex)))
  /\ Len(zsl) > 0
  /\ zslValueGteMin(zsl[Len(zsl)].score, range)
  /\ zslValueLteMax(zsl[1].score, range)

zslFirstInRange(zsl, range) ==
  LET Below(x) == ~zslValueGteMin(x.score, range)
      pos == Walk([j \in 1 .. Len(zsl) |-> Below(zsl[j])], 0)
  IN IF ~zslIsInRange(zsl, range) THEN 0
     ELSE IF ~zslValueLteMax(zsl[pos + 1].score, range) THEN 0
     ELSE pos + 1

zslLastInRange(zsl, range) ==
  LET Under(x) == zslValueLteMax(x.score, range)
      pos == Walk([j \in 1 .. Len(zsl) |-> Under(zsl[j])], 0)
  IN IF ~zslIsInRange(zsl, range) THEN 0
     ELSE IF ~zslValueGteMin(zsl[pos].score, range) THEN 0
     ELSE pos

\* ------------------------------------------------------------------ RdImpl
\* dict maps a member to the score its skiplist node holds (the entry's value
\* is a pointer to that node's score field).
Some(x) == <<x>>
None == <<>>

DictHas(dict, ele) == ele \in DOMAIN dict

DictAdd(dict, ele, score) == [m \in DOMAIN dict \cup {ele} |-> IF m = ele THEN score ELSE dict[m]]

DictDel(dict, ele) == [m \in DOMAIN dict \ {ele} |-> dict[m]]

\* bool RdImpl::Insert(double score, sds member)
RdInsert(dict, zsl, score, member) ==
  [zsl |-> zslInsert(zsl, score, member),
   dict |-> IF DictHas(dict, member) THEN dict ELSE DictAdd(dict, member, score),
   ret |-> ~DictHas(dict, member)]

\* faulty variant: the mask test inverted, (in_flags & FLAG) == 0
HasFlagInverted(in_flags, flag) == flag \notin in_flags

\* (in_flags & FLAG) != 0
HasFlag(in_flags, flag) == flag \in in_flags

\* faulty variant: the incremented score is not tested for NaN
RdIncrNanUnchecked(incr, score) == FALSE

\* RdImpl::Add: if (incr) { score += curscore; if (isnan(score)) ... return 0; }
RdIncrNan(incr, score) == incr /\ isnan(score)

\* RdImpl::Add: (lt && score >= curscore) || (gt && score <= curscore)
RdGtLtNop(score, curscore, in_flags) ==
  \/ (HasFlag(in_flags, ZADD_IN_LT) /\ score >= curscore)
  \/ (HasFlag(in_flags, ZADD_IN_GT) /\ score <= curscore)

\* int RdImpl::Add(double score, sds ele, int in_flags, int* out_flags, double* newscore)
RdAdd(dict, zsl, score0, ele, in_flags) ==
  LET incr == HasFlag(in_flags, ZADD_IN_INCR)
      nx == HasFlag(in_flags, ZADD_IN_NX)
      xx == HasFlag(in_flags, ZADD_IN_XX)
      same == [dict |-> dict, zsl |-> zsl]
  IN IF DictHas(dict, ele) THEN
       LET curscore == dict[ele]
           score == IF incr THEN FAdd(score0, curscore) ELSE score0
       IN IF nx THEN
            same @@ [ret |-> 1, out_flags |-> {ZADD_OUT_NOP}, newscore |-> None]
          ELSE IF RdIncrNan(incr, score) THEN
            same @@ [ret |-> 0, out_flags |-> {ZADD_OUT_NAN}, newscore |-> None]
          ELSE IF RdGtLtNop(score, curscore, in_flags) THEN
            same @@ [ret |-> 1, out_flags |-> {ZADD_OUT_NOP}, newscore |-> None]
          ELSE IF score /= curscore THEN
            [dict |-> [dict EXCEPT ![ele] = score],
             zsl |-> zslUpdateScore(zsl, curscore, ele, score),
             ret |-> 1, out_flags |-> {ZADD_OUT_UPDATED}, newscore |-> Some(score)]
          ELSE
            same @@ [ret |-> 1, out_flags |-> {}, newscore |-> Some(score)]
     ELSE IF ~xx THEN
       [dict |-> DictAdd(dict, ele, score0),
        zsl |-> zslInsert(zsl, score0, ele),
        ret |-> 1, out_flags |-> {ZADD_OUT_ADDED}, newscore |-> Some(score0)]
     ELSE
       same @@ [ret |-> 1, out_flags |-> {ZADD_OUT_NOP}, newscore |-> None]

\* faulty variant: the reverse rank counted from the wrong end by one
RdGetRankOffByOne(dict, zsl, ele, reverse) ==
  IF ~DictHas(dict, ele) THEN None
  ELSE LET rank == zslGetRank(zsl, dict[ele], ele)
       IN Some(IF reverse THEN Len(zsl) - rank + 1 ELSE rank - 1)

\* optional<unsigned> RdImpl::GetRank(sds ele, bool reverse)
RdGetRank(dict, zsl, ele, reverse) ==
  IF ~DictHas(dict, ele) THEN None
  ELSE LET rank == zslGetRank(zsl, dict[ele], ele)
       IN Some(IF reverse THEN Len(zsl) - rank ELSE rank - 1)

\* optional<double> RdImpl::GetScore(sds member)
RdGetScore(dict, member) == IF DictHas(dict, member) THEN Some(dict[member]) ELSE None

\* Next(reverse, ln) on a live node: ln->backward or ln->level[0].forward
NextNode(zsl, reverse, ln) ==
  IF reverse THEN ln - 1 ELSE IF ln < Len(zsl) THEN ln + 1 ELSE 0

IsUnder(reverse, score, spec) ==
  IF reverse THEN zslValueGteMin(score, spec) ELSE zslValueLteMax(score, spec)

\* while (ln && offset--) ln = Next(reverse, ln);
RECURSIVE SkipOffset(_, _, _, _)
SkipOffset(zsl, reverse, ln, offset) ==
  IF ln /= 0 /\ offset /= 0 THEN SkipOffset(zsl, reverse, NextNode(zsl, reverse, ln), offset - 1)
  ELSE ln

\* while (ln && limit--) { if (!IsUnder(..)) break; result.emplace_back(..); ln = Next(..); }
RECURSIVE CollectRange(_, _, _, _, _, _)
CollectRange(zsl, range, reverse, ln, limit, result) ==
  IF ln = 0 \/ limit = 0 THEN result
  ELSE IF ~IsUnder(reverse, zsl[ln].score, range) THEN result
  ELSE CollectRange(zsl, range, reverse, NextNode(zsl, reverse, ln), limit - 1,
                    Append(result, <<zsl[ln].ele, zsl[ln].score>>))

\* ScoredArray RdImpl::GetRange(const zrangespec& range, unsigned offset, unsigned limit, bool reverse)
RdGetRange(zsl, range, offset, limit, reverse) ==
  LET first == IF reverse THEN zslLastInRange(zsl, range) ELSE zslFirstInRange(zsl, range)
      ln == SkipOffset(zsl, reverse, first, offset)
  IN CollectRange(zsl, range, reverse, ln, limit, <<>>)

\* faulty variant: the preliminary count taken from the rank, not from rank - 1
RdCountOffByOne(zsl, range) ==
  LET zn == zslFirstInRange(zsl, range)
      rank == zslGetRank(zsl, zsl[zn].score, zsl[zn].ele)
      count == Len(zsl) - rank
      zl == zslLastInRange(zsl, range)
      lrank == zslGetRank(zsl, zsl[zl].score, zsl[zl].ele)
  IN IF zn = 0 THEN 0
     ELSE IF zl /= 0 THEN count - (Len(zsl) - lrank)
     ELSE count

\* size_t RdImpl::Count(const zrangespec& range)
RdCount(zsl, range) ==
  LET zn == zslFirstInRange(zsl, range)
      rank == zslGetRank(zsl, zsl[zn].score, zsl[zn].ele)
      count == Len(zsl) - (rank - 1)
      zl == zslLastInRange(zsl, range)
      lrank == zslGetRank(zsl, zsl[zl].score, zsl[zl].ele)
  IN IF zn = 0 THEN 0
     ELSE IF zl /= 0 THEN count - (Len(zsl) - lrank)
     ELSE count

\* one step of a Delete: the objects it reads and the objects it frees, among
\* the hash-map entry "entry", the skiplist node "node" and the member string
\* "ele" the node owns and the entry's key points to
DeleteStep(name, reads, frees) == [step |-> name, reads |-> reads, frees |-> frees]

\* faulty variant: the skiplist node, and with it the member string, goes first
RdDeleteSkiplistFirst(dict, zsl, member) ==
  IF ~DictHas(dict, member) THEN
    [ret |-> FALSE, dict |-> dict, zsl |-> zsl, freed |-> 0,
     steps |-> <<DeleteStep("dictUnlink", {}, {})>>]
  ELSE [ret |-> TRUE, dict |-> DictDel(dict, member),
        zsl |-> zslDelete(zsl, dict[member], member),
        freed |-> zslFind(zsl, dict[member], member),
        steps |-> <<DeleteStep("zslDelete", {"node", "ele"}, {"node", "ele"}),
                    DeleteStep("dictUnlink", {"entry", "ele"}, {}),
                    DeleteStep("dictGetVal", {"entry"}, {}),
                    DeleteStep("dictFreeUnlinkedEntry", {"entry"}, {"entry"})>>]

\* bool RdImpl::Delete(sds member): [ret, dict, zsl, freed, steps], freed the
\* position of the skiplist node zslDelete released, steps the calls made in order
RdDelete(dict, zsl, member) ==
  IF ~DictHas(dict, member) THEN
    [ret |-> FALSE, dict |-> dict, zsl |-> zsl, freed |-> 0,
     steps |-> <<DeleteStep("dictUnlink", {}, {})>>]
  ELSE [ret |-> TRUE, dict |-> DictDel(dict, member),
        zsl |-> zslDelete(zsl, dict[member], member),
        freed |-> zslFind(zsl, dict[member], member),
        steps |-> <<DeleteStep("dictUnlink", {"entry", "ele"}, {}),
                    DeleteStep("dictGetVal", {"entry"}, {}),
                    DeleteStep("dictFreeUnlinkedEntry", {"entry"}, {"entry"}),
                    DeleteStep("zslDelete", {"node", "ele"}, {"node", "ele"})>>]

\* What `ln = Next(reverse, ln)` yields in RdImpl::PopTopScores once Delete has
\* freed the node ln points to: the links the node held when it was released
\* ("stale"), a cleared word ("null"), or the read faults ("trap").
FreedReads == {"stale", "null", "trap"}

\* the loop of RdImpl::PopTopScores; outs[i] is the outcome of the i-th read of
\* a freed node.  [dict, zsl, result, aborted, freed_reads], freed_reads the
\* number of reads of a node field made after Delete released the node
RECURSIVE RdPopLoop(_, _, _, _, _, _, _, _)
RdPopLoop(dict, zsl, reverse, ln, count, outs, i, result) ==
  IF ln = 0 \/ count = 0 THEN
    [dict |-> dict, zsl |-> zsl, result |-> result, aborted |-> FALSE, freed_reads |-> i - 1]
  ELSE
    LET res2 == Append(result, <<zsl[ln].ele, zsl[ln].score>>)
        del == RdDelete(dict, zsl, zsl[ln].ele)
        \* Delete released another node with the same member: ln is still linked
        live == IF del.freed < ln THEN ln - 1 ELSE ln
        stale == IF reverse THEN ln - 1 ELSE IF ln <= Len(del.zsl) THEN ln ELSE 0
    IN IF ~del.ret THEN          \* CHECK(Delete(ln->ele)) fails
         [dict |-> dict, zsl |-> zsl, result |-> res2, aborted |-> TRUE, freed_reads |-> i - 1]
       ELSE IF del.freed /= ln THEN
         RdPopLoop(del.dict, del.zsl, reverse, NextNode(del.zsl, reverse, live),
                   count - 1, outs, i, res2)
       ELSE IF outs[i] = "trap" THEN
         [dict |-> del.dict, zsl |-> del.zsl, result |-> res2, aborted |-> TRUE,
          freed_reads |-> i]
       ELSE
         RdPopLoop(del.dict, del.zsl, reverse, IF outs[i] = "null" THEN 0 ELSE stale,
                   count - 1, outs, i + 1, res2)

\* ScoredArray RdImpl::PopTopScores(unsigned count, bool reverse)
RdPopTopScores(dict, zsl, count, reverse, outs) ==
  RdPopLoop(dict, zsl, reverse, IF reverse THEN Len(zsl) ELSE IF Len(zsl) > 0 THEN 1 ELSE 0,
            count, outs, 1, <<>>)

\* zslGetElementByRank: the node at 1-based rank, 0 (NULL) when there is none.
\* Rank 0 yields the header, which has no member: Header.
Header == 0 - 1

zslGetElementByRank(zsl, rank) ==
  IF rank = 0 THEN Header ELSE IF rank >= 1 /\ rank <= Len(zsl) THEN rank ELSE 0

\* the loop of RdImpl::Iterate; cb[k] is what the k-th call of the callback
\* returns.  [ret, calls, fatal]: DCHECK(ln != NULL) fails, or the null pointer
\* or the header's null member is read, when ln is no element.
RECURSIVE RdIterateLoop(_, _, _, _, _, _)
RdIterateLoop(zsl, reverse, ln, len, cb, calls) ==
  IF len = 0 THEN [ret |-> TRUE, calls |-> calls, fatal |-> ""]
  ELSE IF ln = 0 \/ ln = Header THEN [ret |-> TRUE, calls |-> calls, fatal |-> "null"]
  ELSE LET calls2 == Append(calls, <<zsl[ln].ele, zsl[ln].score>>)
           success == cb[Len(calls2)]
           next == NextNode(zsl, reverse, ln)
       IN IF next = 0 \/ ~success THEN [ret |-> success, calls |-> calls2, fatal |-> ""]
          ELSE RdIterateLoop(zsl, reverse, next, len - 1, cb, calls2)

\* bool RdImpl::Iterate(unsigned start_rank, unsigned len, bool reverse, cb).
\* llen - start_rank is unsigned: past the length it wraps to a rank no node has.
RdIterate(zsl, start_rank, len, reverse, cb) ==
  LET llen == Len(zsl)
      ln == IF reverse THEN
              IF start_rank > 0 THEN
                IF start_rank > llen THEN 0 ELSE zslGetElementByRank(zsl, llen - start_rank)
              ELSE llen
            ELSE IF start_rank > 0 THEN zslGetElementByRank(zsl, start_rank + 1)
            ELSE IF llen > 0 THEN 1 ELSE 0
  IN RdIterateLoop(zsl, reverse, ln, len, cb, <<>>)

\* ------------------------------------------------------------------ DfImpl
\* A ScoreSds key: the member bytes, the score stored after them, and the two
\* tag bits a query key may carry in its pointer.
ScoreSds(ele, score, inf, ignore) ==
  [ele |-> ele, score |-> score, kInfTag |-> inf, kIgnoreDoubleTag |-> ignore]

GetObjScore(obj) == obj.score

\* faulty variant: the score is not stored into the object
SetObjScoreDropped(obj, score) == obj

SetObjScore(obj, score) == [obj EXCEPT !.score = score]

\* faulty variant: the key never gets kInfTag
BuilScoredKeyUntagged(score, is_str_inf) == ScoreSds(<<>>, score, FALSE, FALSE)

\* void* BuilScoredKey(double score, bool is_str_inf, char buf[])
BuilScoredKey(score, is_str_inf) == ScoreSds(<<>>, score, is_str_inf, FALSE)

\* faulty variant: the kIgnoreDoubleTag test inverted, so untagged keys skip the scores
KeyCompareToInvertedTag(a, b) ==
  LET sa == GetObjScore(a)
      sb == GetObjScore(b)
      byscore == a.kIgnoreDoubleTag /\ b.kIgnoreDoubleTag
  IN IF byscore /\ sa < sb THEN 0 - 1
     ELSE IF byscore /\ sa > sb THEN 1
     ELSE IF a.kInfTag THEN 1
     ELSE IF b.kInfTag THEN 0 - 1
     ELSE sdscmp(a.ele, b.ele)

\* faulty variant: a key tagged +inf compares less, not greater
KeyCompareToInfLess(a, b) ==
  LET sa == GetObjScore(a)
      sb == GetObjScore(b)
      byscore == ~a.kIgnoreDoubleTag /\ ~b.kIgnoreDoubleTag
  IN IF byscore /\ sa < sb THEN 0 - 1
     ELSE IF byscore /\ sa > sb THEN 1
     ELSE IF a.kInfTag THEN 0 - 1
     ELSE IF b.kInfTag THEN 1
     ELSE sdscmp(a.ele, b.ele)

\* int DfImpl::ScoreSdsPolicy::KeyCompareTo::operator()(ScoreSds a, ScoreSds b)
KeyCompareTo(a, b) ==
  LET sa == GetObjScore(a)
      sb == GetObjScore(b)
      byscore == ~a.kIgnoreDoubleTag /\ ~b.kIgnoreDoubleTag
  IN IF byscore /\ sa < sb THEN 0 - 1
     ELSE IF byscore /\ sa > sb THEN 1
     ELSE IF a.kInfTag THEN 1
     ELSE IF b.kInfTag THEN 0 - 1
     ELSE sdscmp(a.ele, b.ele)

\* score_map: member -> the ScoreSds object allocated for it (its score)
\* score_tree: the keys of the B+tree in tree order

\* BPTree::GEQ: position of the first key not less than `key`, 0 when the path is empty
TreeGEQ(tree, key) ==
  LET pos == Walk([j \in 1 .. Len(tree) |-> KeyCompareTo(tree[j], key) < 0], 0)
  IN IF pos < Len(tree) THEN pos + 1 ELSE 0

\* position of the key equal to `key`, 0 when the tree holds none
TreeFind(tree, key) ==
  LET x == TreeGEQ(tree, key)
  IN IF x /= 0 /\ KeyCompareTo(tree[x], key) = 0 THEN x ELSE 0

\* BPTree::Insert: [tree, added]
TreeInsert(tree, key) ==
  LET pos == Walk([j \in 1 .. Len(tree) |-> KeyCompareTo(tree[j], key) < 0], 0)
  IN IF TreeFind(tree, key) /= 0 THEN [tree |-> tree, added |-> FALSE]
     ELSE [tree |-> InsertAt(tree, pos + 1, key), added |-> TRUE]

\* BPTree::Delete: [tree, deleted]
TreeDelete(tree, key) ==
  LET x == TreeFind(tree, key)
  IN IF x = 0 THEN [tree |-> tree, deleted |-> FALSE]
     ELSE [tree |-> RemoveAt(tree, x), deleted |-> TRUE]

\* BPTree::GetRank: optional 0-based rank
TreeGetRank(tree, key) ==
  LET x == TreeFind(tree, key)
  IN IF x = 0 THEN None ELSE Some(x - 1)

\* ScoreMap::FindObj
FindObj(score_map, ele) ==
  IF ele \in DOMAIN score_map THEN Some(ScoreSds(ele, score_map[ele], FALSE, FALSE)) ELSE None

\* ScoreMap::AddOrUpdate: [map, added]
AddOrUpdate(score_map, ele, score) ==
  [map |-> DictAdd(score_map, ele, score), added |-> ele \notin DOMAIN score_map]

\* ScoreMap::Erase
Erase(score_map, ele) == DictDel(score_map, ele)

\* int DfImpl::Add(double score, sds ele, int in_flags, int* out_flags, double* newscore)
DfAdd(score_map, score_tree, score0, ele, in_flags) ==
  LET found == FindObj(score_map, ele)
      same == [score_map |-> score_map, score_tree |-> score_tree]
  IN IF found = None THEN
       IF HasFlag(in_flags, ZADD_IN_XX) THEN
         same @@ [ret |-> 1, out_flags |-> {ZADD_OUT_NOP}, newscore |-> None]
       ELSE
         [score_map |-> AddOrUpdate(score_map, ele, score0).map,
          score_tree |-> TreeInsert(score_tree, ScoreSds(ele, score0, FALSE, FALSE)).tree,
          ret |-> 1, out_flags |-> {ZADD_OUT_ADDED}, newscore |-> Some(score0)]
     ELSE
       LET obj == found[1]
           incr == HasFlag(in_flags, ZADD_IN_INCR)
           score == IF incr THEN FAdd(score0, GetObjScore(obj)) ELSE score0
       IN IF HasFlag(in_flags, ZADD_IN_NX) THEN
            same @@ [ret |-> 1, out_flags |-> {ZADD_OUT_NOP}, newscore |-> None]
          ELSE IF incr /\ isnan(score) THEN
            same @@ [ret |-> 0, out_flags |-> {ZADD_OUT_NAN}, newscore |-> None]
          ELSE
            \* obj is the object the map owns: SetObjScore writes the map's score
            [score_map |-> [score_map EXCEPT ![ele] = GetObjScore(SetObjScore(obj, score))],
             score_tree |-> TreeInsert(TreeDelete(score_tree, obj).tree,
                                       SetObjScore(obj, score)).tree,
             ret |-> 1, out_flags |-> {ZADD_OUT_UPDATED}, newscore |-> Some(score)]

\* optional<double> DfImpl::GetScore(sds ele)
DfGetScore(score_map, ele) ==
  LET found == FindObj(score_map, ele)
  IN IF found /= None THEN Some(GetObjScore(found[1])) ELSE None

\* bool DfImpl::Insert(double score, sds ele); the DCHECKs are taken by the action
DfInsert(score_map, score_tree, score, ele) ==
  [score_map |-> AddOrUpdate(score_map, ele, score).map,
   score_tree |-> TreeInsert(score_tree, ScoreSds(ele, score, FALSE, FALSE)).tree,
   added |-> AddOrUpdate(score_map, ele, score).added,
   ret |-> TRUE]

\* optional<unsigned> DfImpl::GetRank(sds ele, bool reverse)
DfGetRank(score_map, score_tree, ele, reverse) ==
  LET found == FindObj(score_map, ele)
      rank == TreeGetRank(score_tree, found[1])
  IN IF found = None THEN None
     ELSE Some(IF reverse THEN Cardinality(DOMAIN score_map) - rank[1] - 1 ELSE rank[1])

\* bool DfImpl::Delete(sds ele)
DfDelete(score_map, score_tree, ele) ==
  LET found == FindObj(score_map, ele)
  IN IF found = None THEN [ret |-> FALSE, score_map |-> score_map, score_tree |-> score_tree]
     ELSE [ret |-> TRUE, score_map |-> Erase(score_map, ele),
           score_tree |-> TreeDelete(score_tree, found[1]).tree]

\* BPTree::Iterate / IterateReverse(rank_start, rank_end, cb): cb on the keys of
\* ranks rank_start .. rank_end, counted from the head or from the tail, until
\* cb returns false or the sequence ends.  A start past the last rank is outside
\* the tree's contract: fatal.
RECURSIVE BPTreeIterate(_, _, _, _, _, _)
BPTreeIterate(tree, rank, rank_end, reverse, cb, calls) ==
  IF rank > rank_end THEN [ret |-> TRUE, calls |-> calls, fatal |-> ""]
  ELSE IF rank >= Len(tree) THEN
    [ret |-> TRUE, calls |-> calls, fatal |-> IF calls = <<>> THEN "range" ELSE ""]
  ELSE LET obj == tree[IF reverse THEN Len(tree) - rank ELSE rank + 1]
           calls2 == Append(calls, <<obj.ele, GetObjScore(obj)>>)
       IN IF ~cb[Len(calls2)] THEN [ret |-> FALSE, calls |-> calls2, fatal |-> ""]
          ELSE BPTreeIterate(tree, rank + 1, rank_end, reverse, cb, calls2)

\* bool DfImpl::Iterate(unsigned start_rank, unsigned len, bool reverse, cb);
\* DCHECK_GT(len, 0u) is taken by the action.  end_rank is unsigned: 0 + 0 - 1
\* wraps to UINT_MAX, a rank past every key, for which Len(tree) stands.
DfIterate(tree, start_rank, len, reverse, cb) ==
  LET end_rank == IF start_rank + len = 0 THEN Len(tree) ELSE start_rank + len - 1
  IN BPTreeIterate(tree, start_rank, end_rank, reverse, cb, <<>>)

\* the loop of DfImpl::PopTopScores: delete rank `rank` of the tree, record it,
\* erase it from score_map
RECURSIVE DfPopLoop(_, _, _, _, _, _)
DfPopLoop(score_map, score_tree, rank, step, left, res) ==
  IF left = 0 THEN [score_map |-> score_map, score_tree |-> score_tree, result |-> res]
  ELSE LET obj == score_tree[rank + 1]
       IN DfPopLoop(Erase(score_map, obj.ele), RemoveAt(score_tree, rank + 1),
                    rank - step, step, left - 1,
                    Append(res, <<obj.ele, GetObjScore(obj)>>))

\* ScoredArray DfImpl::PopTopScores(unsigned count, bool reverse)
DfPopTopScores(score_map, score_tree, count0, reverse) ==
  LET sz == Cardinality(DOMAIN score_map)
      count == IF count0 >= sz THEN sz ELSE count0
  IN IF sz = 0 THEN [score_map |-> score_map, score_tree |-> score_tree, result |-> <<>>]
     ELSE DfPopLoop(score_map, score_tree, IF reverse THEN sz - 1 ELSE 0,
                    IF reverse THEN 1 ELSE 0, count, <<>>)

\* size_t DfImpl::Count(const zrangespec& range)
DfCount(score_tree, range) ==
  LET lo == TreeGEQ(score_tree, BuilScoredKey(range.min, range.minex))
      min_rank == lo - 1
      hi == TreeGEQ(score_tree, BuilScoredKey(range.max, ~range.maxex))
      max_rank == hi - 1
      over == range.maxex \/ GetObjScore(score_tree[hi]) > range.max
      max_rank2 == IF over THEN max_rank - 1 ELSE max_rank
  IN IF Len(score_tree) = 0 THEN 0
     ELSE IF lo = 0 THEN 0
     ELSE IF hi = 0 THEN Len(score_tree) - min_rank
     ELSE IF over /\ max_rank <= min_rank THEN 0
     ELSE IF max_rank2 < min_rank THEN 0
     ELSE max_rank2 - min_rank + 1

\* ----------------------------------------------------------- search data
MaxDoc == 3

DocIds == 1 .. MaxDoc

\* Schema: title and body are TEXT, tag is TAG, price is NUMERIC, v is VECTOR
TextFields == {"title", "body"}

Tokens == {"apple", "banana"}

Tags == {"sale", "new"}

\* the documents a doc id can stand for: tokens of the text fields, tags,
\* price and a 2-D vector (coordinates in tenths)
Documents ==
  { [title |-> {"apple"}, body |-> {}, tag |-> {"sale"}, price |-> 10, v |-> <<0, 0>>],
    [title |-> {"apple"}, body |-> {"banana"}, tag |-> {"new"}, price |-> 20, v |-> <<10, 0>>],
    [title |-> {"banana"}, body |-> {"apple"}, tag |-> {"sale", "new"}, price |-> 30, v |-> <<0, 10>>],
    [title |-> {}, body |-> {}, tag |-> {}, price |-> 20, v |-> <<50, 50>>] }

\* FieldIndices::FieldIndices(Schema): one empty index per field
EmptyIndices ==
  [text |-> [f \in TextFields |-> [t \in Tokens |-> <<>>]],
   tag |-> [t \in Tags |-> <<>>],
   numeric |-> {},
   vector |-> [d \in {} |-> <<>>]]

\* the shards of the shard set
NumShards == 2

Shards == 1 .. NumShards

\* ------------------------------------------------------------------ state
VARIABLES
  impl,        \* the variant SortedMap::SortedMap chose: "RdImpl" or "DfImpl"
  dict,        \* RdImpl::dict
  zsl,         \* RdImpl::zsl
  score_map,   \* DfImpl::score_map
  score_tree,  \* DfImpl::score_tree
  call,        \* the operation in progress and its arguments, Idle between calls
  ret,         \* what it returned and wrote to its out-parameters
  aborted,     \* the process died on a CHECK, a DCHECK, LOG(FATAL) or a fault
  all_ids,     \* FieldIndices::all_ids_
  indices,     \* FieldIndices::indices_: the per-field indices of the schema
  documents,   \* the documents the caller's DocumentAccessor reads, by doc id
  search_indices,  \* per shard, EngineShard::search_indices(): index name -> DocIndex
  txq          \* the global transactions scheduled and not yet concluded, oldest first

vars == <<impl, dict, zsl, score_map, score_tree, call, ret, aborted, all_ids, indices, documents, search_indices, txq>>

Idle == [op |-> "idle"]

EmptyMap == [m \in {} |-> 0]

\* a limit no sequence of the model reaches (the callers' UINT_MAX)
Unbounded == MaxNodes + Cardinality(Members) + 1

\* the (offset, limit, reverse) GetRange is called with
RangeWindows == { <<0, Unbounded, FALSE>>, <<0, Unbounded, TRUE>>, <<1, 1, FALSE>>, <<1, 1, TRUE>> }

\* SortedMap::SortedMap: FLAGS_use_zset_tree picks the variant, then Init()
Init ==
  /\ impl \in {"RdImpl", "DfImpl"}
  /\ dict = EmptyMap
  /\ zsl = <<>>
  /\ score_map = EmptyMap
  /\ score_tree = <<>>
  /\ call = Idle
  /\ ret = Idle
  /\ aborted = FALSE
  /\ all_ids = <<>>
  /\ indices = EmptyIndices
  /\ documents = EmptyMap
  /\ search_indices = [sh \in Shards |-> EmptyMap]
  /\ txq = <<>>

Ready == ~aborted /\ call = Idle

\* SortedMap::Add dispatches to the active variant
AddCall(score, ele, in_flags) ==
  /\ Ready
  /\ call' = [op |-> "Add", score |-> score, ele |-> ele, in_flags |-> in_flags]
  /\ IF impl = "RdImpl" THEN
       LET r == RdAdd(dict, zsl, score, ele, in_flags)
       IN /\ dict' = r.dict
          /\ zsl' = r.zsl
          /\ ret' = [ret |-> r.ret, out_flags |-> r.out_flags, newscore |-> r.newscore]
          /\ UNCHANGED <<score_map, score_tree>>
     ELSE
       LET r == DfAdd(score_map, score_tree, score, ele, in_flags)
       IN /\ score_map' = r.score_map
          /\ score_tree' = r.score_tree
          /\ ret' = [ret |-> r.ret, out_flags |-> r.out_flags, newscore |-> r.newscore]
          /\ UNCHANGED <<dict, zsl>>
  /\ UNCHANGED <<impl, aborted, all_ids, indices, documents, search_indices, txq>>

Add == \E score \in Scores, ele \in Members, in_flags \in InFlags : AddCall(score, ele, in_flags)

\* SortedMap::Insert.  In DfImpl a member that is already present fails
\* DCHECK(added): a debug build stops there, a release build goes on to insert
\* the new object into the tree, which still holds the key of the replaced one.
InsertCall(score, member, dcheck) ==
  /\ Ready
  /\ call' = [op |-> "Insert", score |-> score, ele |-> member]
  /\ IF impl = "RdImpl" THEN
       LET r == RdInsert(dict, zsl, score, member)
       IN /\ dict' = r.dict
          /\ zsl' = r.zsl
          /\ ret' = [ret |-> r.ret]
          /\ UNCHANGED <<score_map, score_tree, aborted>>
     ELSE
       LET r == DfInsert(score_map, score_tree, score, member)
       IN /\ score_map' = r.score_map
          /\ IF ~r.added /\ dcheck
             THEN /\ score_tree' = score_tree
                  /\ aborted' = TRUE
                  /\ ret' = [fatal |-> "DCHECK"]
             ELSE /\ score_tree' = r.score_tree
                  /\ aborted' = FALSE
                  /\ ret' = [ret |-> r.ret]
          /\ UNCHANGED <<dict, zsl>>
  /\ UNCHANGED <<impl, all_ids, indices, documents, search_indices, txq>>

NodeCount == IF impl = "RdImpl" THEN Len(zsl) ELSE Len(score_tree)

Present(ele) == IF impl = "RdImpl" THEN DictHas(dict, ele) ELSE ele \in DOMAIN score_map

\* a build either compiles its DCHECKs in or leaves them out; only DfImpl has
\* DCHECKs that can fail
Builds == IF impl = "DfImpl" THEN BOOLEAN ELSE {FALSE}

\* one outcome for each read of a freed node the call can make; only RdImpl makes them
FreedReadOutcomes(count) ==
  IF impl = "RdImpl" THEN [1 .. Min2(count, Len(zsl)) -> FreedReads] ELSE {<<>>}

Insert ==
  \E score \in Scores, member \in Members, dcheck \in Builds :
    /\ NodeCount < MaxNodes
    /\ InsertCall(score, member, dcheck)

\* Insert as FromListPack and the loaders call it: the member is not in the set
InsertNew ==
  \E score \in Scores, member \in Members :
    /\ ~Present(member)
    /\ InsertCall(score, member, FALSE)

\* SortedMap::Delete
DeleteCall(ele) ==
  /\ Ready
  /\ call' = [op |-> "Delete", ele |-> ele]
  /\ IF impl = "RdImpl" THEN
       LET r == RdDelete(dict, zsl, ele)
       IN /\ dict' = r.dict
          /\ zsl' = r.zsl
          /\ ret' = [ret |-> r.ret]
          /\ UNCHANGED <<score_map, score_tree>>
     ELSE
       LET r == DfDelete(score_map, score_tree, ele)
       IN /\ score_map' = r.score_map
          /\ score_tree' = r.score_tree
          /\ ret' = [ret |-> r.ret]
          /\ UNCHANGED <<dict, zsl>>
  /\ UNCHANGED <<impl, aborted, all_ids, indices, documents, search_indices, txq>>

Delete == \E ele \in Members : DeleteCall(ele)

\* SortedMap::PopTopScores.  DfImpl checks DCHECK_EQ(score_map->Size(),
\* score_tree->Size()) first.
PopTopScoresCall(count, reverse, outs, dcheck) ==
  /\ Ready
  /\ call' = [op |-> "PopTopScores", count |-> count, reverse |-> reverse]
  /\ IF impl = "RdImpl" THEN
       LET r == RdPopTopScores(dict, zsl, count, reverse, outs)
       IN /\ dict' = r.dict
          /\ zsl' = r.zsl
          /\ aborted' = r.aborted
          /\ ret' = IF r.aborted THEN [fatal |-> "abort"] ELSE [result |-> r.result]
          /\ UNCHANGED <<score_map, score_tree>>
     ELSE
       LET r == DfPopTopScores(score_map, score_tree, count, reverse)
           unequal == Cardinality(DOMAIN score_map) /= Len(score_tree)
       IN IF unequal /\ dcheck
          THEN /\ aborted' = TRUE
               /\ ret' = [fatal |-> "DCHECK"]
               /\ UNCHANGED <<dict, zsl, score_map, score_tree>>
          ELSE /\ score_map' = r.score_map
               /\ score_tree' = r.score_tree
               /\ aborted' = FALSE
               /\ ret' = [result |-> r.result]
               /\ UNCHANGED <<dict, zsl>>
  /\ UNCHANGED <<impl, all_ids, indices, documents, search_indices, txq>>

PopTopScores ==
  \E count \in 0 .. MaxCount, reverse \in BOOLEAN, dcheck \in Builds :
    \E outs \in FreedReadOutcomes(count) : PopTopScoresCall(count, reverse, outs, dcheck)

\* SortedMap::GetRank
GetRank ==
  \E ele \in Members, reverse \in BOOLEAN :
    /\ Ready
    /\ call' = [op |-> "GetRank", ele |-> ele, reverse |-> reverse]
    /\ ret' = [ret |-> IF impl = "RdImpl" THEN RdGetRank(dict, zsl, ele, reverse)
                       ELSE DfGetRank(score_map, score_tree, ele, reverse)]
    /\ UNCHANGED <<impl, dict, zsl, score_map, score_tree, aborted, all_ids, indices, documents, search_indices, txq>>

\* SortedMap::GetScore
GetScore ==
  \E ele \in Members :
    /\ Ready
    /\ call' = [op |-> "GetScore", ele |-> ele]
    /\ ret' = [ret |-> IF impl = "RdImpl" THEN RdGetScore(dict, ele)
                       ELSE DfGetScore(score_map, ele)]
    /\ UNCHANGED <<impl, dict, zsl, score_map, score_tree, aborted, all_ids, indices, documents, search_indices, txq>>

\* SortedMap::Count.  DfImpl checks DCHECK_LE(range.min, range.max) first.
Count ==
  \E range \in RangeSpecs, dcheck \in Builds :
    /\ Ready
    /\ call' = [op |-> "Count", range |-> range]
    /\ IF impl = "DfImpl" /\ range.min > range.max /\ dcheck
       THEN /\ aborted' = TRUE
            /\ ret' = [fatal |-> "DCHECK"]
       ELSE /\ aborted' = FALSE
            /\ ret' = [ret |-> IF impl = "RdImpl" THEN RdCount(zsl, range)
                               ELSE DfCount(score_tree, range)]
    /\ UNCHANGED <<impl, dict, zsl, score_map, score_tree, all_ids, indices, documents, search_indices, txq>>

\* SortedMap::GetRange.  DfImpl::GetRange is LOG(FATAL) << "TBD".
GetRange ==
  \E range \in RangeSpecs, w \in RangeWindows :
    /\ Ready
    /\ call' = [op |-> "GetRange", range |-> range, offset |-> w[1], limit |-> w[2],
                reverse |-> w[3]]
    /\ IF impl = "DfImpl"
       THEN /\ aborted' = TRUE
            /\ ret' = [fatal |-> "TBD"]
       ELSE /\ aborted' = FALSE
            /\ ret' = [ret |-> RdGetRange(zsl, range, w[1], w[2], w[3])]
    /\ UNCHANGED <<impl, dict, zsl, score_map, score_tree, all_ids, indices, documents, search_indices, txq>>

\* what the callback given to Iterate returns at each of its calls
Callbacks == [1 .. Cardinality(Members) -> BOOLEAN]

\* SortedMap::Iterate
IterateCall(start_rank, len, reverse, cb, dcheck) ==
  /\ Ready
  /\ call' = [op |-> "Iterate", start_rank |-> start_rank, len |-> len, reverse |-> reverse,
              cb |-> cb]
  /\ LET r == IF impl = "RdImpl" THEN RdIterate(zsl, start_rank, len, reverse, cb)
              ELSE DfIterate(score_tree, start_rank, len, reverse, cb)
     IN IF impl = "DfImpl" /\ len = 0 /\ dcheck
        THEN /\ aborted' = TRUE
             /\ ret' = [fatal |-> "DCHECK"]
        ELSE IF r.fatal /= ""
        THEN /\ aborted' = TRUE
             /\ ret' = [fatal |-> r.fatal]
        ELSE /\ aborted' = FALSE
             /\ ret' = [ret |-> r.ret, calls |-> r.calls]
  /\ UNCHANGED <<impl, dict, zsl, score_map, score_tree, all_ids, indices, documents,
                 search_indices, txq>>

Iterate ==
  \E start_rank \in 0 .. Cardinality(Members), len \in 0 .. MaxCount, reverse \in BOOLEAN,
     cb \in Callbacks, dcheck \in Builds :
    IterateCall(start_rank, len, reverse, cb, dcheck)

\* the call returns: the caller takes the result and is free to call again
Return ==
  /\ ~aborted
  /\ call /= Idle
  /\ call' = Idle
  /\ ret' = Idle
  /\ UNCHANGED <<impl, dict, zsl, score_map, score_tree, aborted, all_ids, indices, documents, search_indices, txq>>

\* The container as its callers drive it: Insert is only given members that are
\* not in the set (FromListPack CHECKs the result, DfImpl::Insert DCHECKs it).
Next == Add \/ InsertNew \/ Delete \/ PopTopScores \/ GetRank \/ GetScore \/ Return

Spec == Init /\ [][Next]_vars

\* The range queries over every population: Insert and Delete build the set.
NextRange == InsertNew \/ Delete \/ Count \/ GetRange \/ Return

SpecRange == Init /\ [][NextRange]_vars

\* The container when Insert is given any member, present or not.
NextAnyInsert == Insert \/ Delete \/ PopTopScores \/ GetRank \/ GetScore \/ Return

SpecAnyInsert == Init /\ [][NextAnyInsert]_vars

\* the keys a tree holds: untagged, one per member and score
TreeKeys == {ScoreSds(m, score, FALSE, FALSE) : m \in Members, score \in Scores}

\* the keys the range queries build for a bound
BoundKeys == {BuilScoredKey(score, is_str_inf) : score \in Scores, is_str_inf \in BOOLEAN}

\* the tree's comparator applied to two keys
KeyCompare ==
  \E a \in TreeKeys \cup BoundKeys, b \in TreeKeys \cup BoundKeys :
    /\ Ready
    /\ call' = [op |-> "KeyCompareTo", a |-> a, b |-> b]
    /\ ret' = [ret |-> KeyCompareTo(a, b)]
    /\ UNCHANGED <<impl, dict, zsl, score_map, score_tree, aborted, all_ids, indices, documents,
                   search_indices, txq>>

NextCompare == KeyCompare \/ Return

SpecCompare == Init /\ [][NextCompare]_vars

\* the container read through Iterate
NextIterate == InsertNew \/ Delete \/ Iterate \/ Return

SpecIterate == Init /\ [][NextIterate]_vars

\* ------------------------------------------------------------------ views
\* the order structure of the active variant, head first
Order ==
  IF impl = "RdImpl" THEN zsl
  ELSE [j \in 1 .. Len(score_tree) |-> [score |-> score_tree[j].score, ele |-> score_tree[j].ele]]

\* the member map of the active variant
MemberMap == IF impl = "RdImpl" THEN dict ELSE score_map

Content == <<dict, zsl, score_map, score_tree>>

\* (s1, e1) comes strictly before (s2, e2) in (score, member bytes) order
Precedes(s1, e1, s2, e2) == s1 < s2 \/ (s1 = s2 /\ sdscmp(e1, e2) < 0)

\* the members of the map that come strictly before member m
MembersBefore(m) ==
  {x \in DOMAIN MemberMap : Precedes(MemberMap[x], x, MemberMap[m], m)}

RankOf(m, reverse) ==
  IF impl = "RdImpl" THEN RdGetRank(dict, zsl, m, reverse)
  ELSE DfGetRank(score_map, score_tree, m, reverse)

ScoreOf(m) == IF impl = "RdImpl" THEN RdGetScore(dict, m) ELSE DfGetScore(score_map, m)

\* the same two in the state a step leads to
RankAfter(m, reverse) ==
  IF impl = "RdImpl" THEN RdGetRank(dict', zsl', m, reverse)
  ELSE DfGetRank(score_map', score_tree', m, reverse)

ScoreAfter(m) == IF impl = "RdImpl" THEN RdGetScore(dict', m) ELSE DfGetScore(score_map', m)

\* the step is a call of `op`
Calls(op) == call = Idle /\ call'.op = op

\* ------------------------------------------------------------------ claims

\* C1: after any sequence of Add, Insert, Delete and PopTopScores calls the
\* member map and the order structure hold the same number of entries.
C1_SizesAgree == Cardinality(DOMAIN MemberMap) = Len(Order)

\* C2: from rank 0 upward the order structure is in non-decreasing score order,
\* equal scores in ascending member bytes.
C2_Ordered ==
  \A i \in 1 .. (Len(Order) - 1) :
    Precedes(Order[i].score, Order[i].ele, Order[i + 1].score, Order[i + 1].ele)

\* C2 witness: an Add changed the score of an existing member, which now stands
\* last of three, behind a member of the same score
C2_Witness ==
  /\ call.op = "Add"
  /\ ret.out_flags = {ZADD_OUT_UPDATED}
  /\ Len(Order) = 3
  /\ Order[3].ele = call.ele
  /\ Order[2].score = Order[3].score
  /\ Order[1].score < Order[2].score

\* the presence precondition of an Add is not met
PresenceUnmet(c) ==
  \/ (ZADD_IN_NX \in c.in_flags /\ Present(c.ele))
  \/ (ZADD_IN_XX \in c.in_flags /\ ~Present(c.ele))

\* C3: an Add whose presence precondition is not met (NX and the member exists,
\* XX and it is absent) returns 1 with the NOP flag and leaves the member set,
\* every score and every rank unchanged.
C3_PresenceNop ==
  [][(Calls("Add") /\ PresenceUnmet(call'))
       => /\ ret'.ret = 1
          /\ ret'.out_flags = {ZADD_OUT_NOP}
          /\ Content' = Content
          /\ \A m \in Members : /\ ScoreAfter(m) = ScoreOf(m)
                                /\ RankAfter(m, FALSE) = RankOf(m, FALSE)
                                /\ RankAfter(m, TRUE) = RankOf(m, TRUE)]_vars

\* C3 witness: Add with NX on a member of a two-member set returned NOP
C3_Witness ==
  /\ call.op = "Add"
  /\ ZADD_IN_NX \in call.in_flags
  /\ Present(call.ele)
  /\ Len(Order) = 2
  /\ ret.out_flags = {ZADD_OUT_NOP}
  /\ call.score /= MemberMap[call.ele]

\* the score an Add computes for a member whose score is `cur`
Resulting(c, cur) == IF ZADD_IN_INCR \in c.in_flags THEN FAdd(c.score, cur) ELSE c.score

\* GT with a result not above the current score, or LT with one not below it
GtLtUnmet(c, cur) ==
  /\ ~isnan(Resulting(c, cur))
  /\ \/ (ZADD_IN_GT \in c.in_flags /\ Resulting(c, cur) <= cur)
     \/ (ZADD_IN_LT \in c.in_flags /\ Resulting(c, cur) >= cur)

\* C4: Add on an existing member with GT (LT) whose resulting score is not
\* greater (less) than the current one returns the NOP flag and leaves the
\* stored score and the position unchanged.
C4_GtLtNop ==
  [][(Calls("Add") /\ Present(call'.ele) /\ GtLtUnmet(call', MemberMap[call'.ele]))
       => /\ ret'.out_flags = {ZADD_OUT_NOP}
          /\ ScoreAfter(call'.ele) = ScoreOf(call'.ele)
          /\ RankAfter(call'.ele, FALSE) = RankOf(call'.ele, FALSE)]_vars

\* C4 as the skiplist variant has it
C4_RdGtLtNop ==
  [][(Calls("Add") /\ impl = "RdImpl" /\ Present(call'.ele)
        /\ GtLtUnmet(call', MemberMap[call'.ele]))
       => /\ ret'.out_flags = {ZADD_OUT_NOP}
          /\ Content' = Content]_vars

NoNaNStored ==
  /\ \A i \in 1 .. Len(Order) : ~isnan(Order[i].score)
  /\ \A m \in DOMAIN MemberMap : ~isnan(MemberMap[m])

\* INCR on an existing member whose current score plus the delta is NaN
IncrToNaN(c) ==
  /\ Present(c.ele)
  /\ ZADD_IN_INCR \in c.in_flags
  /\ isnan(FAdd(c.score, MemberMap[c.ele]))

NanRefused ==
  /\ ret'.ret = 0
  /\ ret'.out_flags = {ZADD_OUT_NAN}
  /\ Content' = Content

\* C5 as claimed: Add with INCR on an existing member whose current score plus
\* the delta is NaN returns 0 with the NAN flag and changes nothing; no element
\* with a NaN score is ever stored.
C5_Original ==
  [][(Calls("Add") /\ IncrToNaN(call') => NanRefused) /\ NoNaNStored']_vars

\* C5 as amended: the same for an Add that does not carry NX (with NX the call
\* returns 1 with NOP before the score is incremented).
C5_IncrNaN ==
  [][(Calls("Add") /\ IncrToNaN(call') /\ ZADD_IN_NX \notin call'.in_flags => NanRefused)
       /\ NoNaNStored']_vars

\* C5 witness: INCR by -inf on a member that stands at +inf, in a set of two
C5_Witness ==
  /\ call.op = "Add"
  /\ call.score = NegInf
  /\ Present(call.ele)
  /\ MemberMap[call.ele] = PosInf
  /\ ret.ret = 0
  /\ ret.out_flags = {ZADD_OUT_NAN}
  /\ Len(Order) = 2

\* INCR with a non-zero delta on an existing member, no NX/GT/LT, sum not NaN
IncrCase(c) ==
  /\ Present(c.ele)
  /\ ZADD_IN_INCR \in c.in_flags
  /\ c.in_flags \cap {ZADD_IN_NX, ZADD_IN_GT, ZADD_IN_LT} = {}
  /\ c.score /= 0
  /\ ~isnan(FAdd(c.score, MemberMap[c.ele]))

\* the members other than m that come strictly before (score, m)
OthersBefore(score, m) ==
  {x \in DOMAIN MemberMap \ {m} : Precedes(MemberMap[x], x, score, m)}

\* newscore, GetScore and GetRank after an INCR that gave the member score `sum`
IncrStored(c, sum) ==
  /\ ret'.ret = 1
  /\ ret'.newscore = Some(sum)
  /\ ScoreAfter(c.ele) = Some(sum)
  /\ RankAfter(c.ele, FALSE) = Some(Cardinality(OthersBefore(sum, c.ele)))
  /\ RankAfter(c.ele, TRUE) =
       Some(Cardinality(DOMAIN MemberMap) - 1 - Cardinality(OthersBefore(sum, c.ele)))

\* C6 as claimed: such an Add returns 1 with flag UPDATED and newscore = s+d;
\* afterwards GetScore returns s+d and GetRank the position under the new score.
C6_Original ==
  [][Calls("Add") /\ IncrCase(call')
       => /\ IncrStored(call', FAdd(call'.score, MemberMap[call'.ele]))
          /\ ret'.out_flags = {ZADD_OUT_UPDATED}]_vars

\* C6 as amended: the flag is UPDATED when s+d differs from s; when s+d = s (s
\* is infinite) the skiplist variant sets no flag and the B+tree variant UPDATED.
C6_Incr ==
  [][Calls("Add") /\ IncrCase(call')
       => LET s == MemberMap[call'.ele]
              sum == FAdd(call'.score, s)
          IN /\ IncrStored(call', sum)
             /\ ret'.out_flags =
                  IF impl = "RdImpl" /\ sum = s THEN {} ELSE {ZADD_OUT_UPDATED}]_vars

\* C6 witness: INCR by a finite delta moved a member from the front group to
\* the last of three ranks, behind a member of the same new score
C6_Witness ==
  /\ call.op = "Add"
  /\ call.in_flags = {ZADD_IN_INCR}
  /\ call.score \in Finite \ {0}
  /\ ret.out_flags = {ZADD_OUT_UPDATED}
  /\ ret.newscore[1] \in Finite
  /\ Len(Order) = 3
  /\ Order[3].ele = call.ele
  /\ Order[2].score = Order[3].score
  /\ Order[1].score = Order[3].score - call.score

\* C7: GetRank of a present member is the number of members strictly before it
\* in (score, member) order, n-1 minus that when reverse; of an absent member none.
C7_Rank ==
  /\ \A m \in Members, reverse \in BOOLEAN :
       RankOf(m, reverse) =
         IF m \in DOMAIN MemberMap
         THEN Some(IF reverse
                   THEN Cardinality(DOMAIN MemberMap) - 1 - Cardinality(MembersBefore(m))
                   ELSE Cardinality(MembersBefore(m)))
         ELSE None
  /\ call.op = "GetRank" => ret.ret = RankOf(call.ele, call.reverse)

\* C7 witness: the reverse rank of the first of three members is 2
C7_Witness ==
  /\ call.op = "GetRank"
  /\ call.reverse
  /\ Len(Order) = 3
  /\ Order[1].ele = call.ele
  /\ Order[1].score = Order[2].score
  /\ ret.ret = Some(2)

CountOf(range) == IF impl = "RdImpl" THEN RdCount(zsl, range) ELSE DfCount(score_tree, range)

\* the call is GetRange(spec, offset = 0, limit = unbounded, reverse = false)
WholeRange(c) == c.op = "GetRange" /\ c.offset = 0 /\ c.limit = Unbounded /\ ~c.reverse

\* C8 as claimed: Count(spec) equals the number of elements
\* GetRange(spec, 0, unbounded, false) returns, for every content and spec.
C8_Original ==
  WholeRange(call) => (~aborted /\ Len(ret.ret) = CountOf(call.range))

\* C8 as amended: in the skiplist variant Count(spec) equals the number of
\* elements GetRange(spec, 0, unbounded, false) returns, for every content and
\* every spec, min > max included.
C8_RdCountIsRangeSize ==
  impl = "RdImpl" =>
    /\ \A range \in RangeSpecs :
         RdCount(zsl, range) = Len(RdGetRange(zsl, range, 0, Unbounded, FALSE))
    /\ WholeRange(call) => Len(ret.ret) = RdCount(zsl, call.range)
    /\ call.op = "Count" => ret.ret = Len(RdGetRange(zsl, call.range, 0, Unbounded, FALSE))

\* C8 witness: Count over a range with an exclusive minimum that cuts one of
\* three elements off returned 2
C8_Witness ==
  /\ impl = "RdImpl"
  /\ call.op = "Count"
  /\ call.range.minex
  /\ Len(zsl) = 3
  /\ zsl[1].score = call.range.min
  /\ ret.ret = 2

InRange(score, range) == zslValueGteMin(score, range) /\ zslValueLteMax(score, range)

InRangeCount(range) == Cardinality({m \in DOMAIN MemberMap : InRange(MemberMap[m], range)})

\* C9: in the B+tree variant, for every population and every range with
\* min <= max, Count is the number of elements whose score lies in the range:
\* [a, a), (a, a] and (a, a) give 0 and Count(-inf, +inf) is Size().
C9_DfCount ==
  impl = "DfImpl" =>
    /\ \A range \in RangeSpecs :
         range.min <= range.max => DfCount(score_tree, range) = InRangeCount(range)
    /\ DfCount(score_tree, [min |-> NegInf, max |-> PosInf, minex |-> FALSE, maxex |-> FALSE])
         = Cardinality(DOMAIN score_map)
    /\ (call.op = "Count" /\ call.range.min <= call.range.max)
         => ret.ret = InRangeCount(call.range)

\* C9 witness: Count over [a, a) returned 0 on a tree of three that holds a
\* member of score a
C9_Witness ==
  /\ impl = "DfImpl"
  /\ call.op = "Count"
  /\ call.range.min = call.range.max
  /\ ~call.range.minex
  /\ call.range.maxex
  /\ Len(score_tree) = 3
  /\ \E m \in DOMAIN score_map : score_map[m] = call.range.min
  /\ ret.ret = 0

Pair(node) == <<node.ele, node.score>>

\* what PopTopScores(count, reverse) is to return, and what is to remain
PopCount(count) == Min2(count, Len(Order))

PopExpected(count, reverse) ==
  [i \in 1 .. PopCount(count) |->
     Pair(Order[IF reverse THEN Len(Order) + 1 - i ELSE i])]

PopRemaining(count, reverse) ==
  IF reverse THEN SubSeq(Order, 1, Len(Order) - PopCount(count))
  ELSE SubSeq(Order, PopCount(count) + 1, Len(Order))

\* the members of a sequence of nodes
ElesOf(nodes) == {nodes[i].ele : i \in 1 .. Len(nodes)}

\* C10: PopTopScores(count, reverse) on a set of size n returns min(count, n)
\* elements, the highest descending when reverse and the lowest ascending
\* otherwise, and leaves exactly the other elements in map and order structure.
C10_PopTop ==
  [][Calls("PopTopScores")
       => /\ ~aborted'
          /\ ret'.result = PopExpected(call'.count, call'.reverse)
          /\ Order' = PopRemaining(call'.count, call'.reverse)
          /\ DOMAIN MemberMap' = ElesOf(PopRemaining(call'.count, call'.reverse))
          /\ \A m \in DOMAIN MemberMap' : MemberMap'[m] = MemberMap[m]]_vars

\* C10 as the B+tree variant has it
C10_DfPopTop ==
  [][Calls("PopTopScores") /\ impl = "DfImpl"
       => /\ ~aborted'
          /\ ret'.result = PopExpected(call'.count, call'.reverse)
          /\ Order' = PopRemaining(call'.count, call'.reverse)
          /\ DOMAIN MemberMap' = ElesOf(PopRemaining(call'.count, call'.reverse))
          /\ \A m \in DOMAIN MemberMap' : MemberMap'[m] = MemberMap[m]]_vars

\* ------------------------------------------------- unimplemented operations
\* the DfImpl operations whose body is LOG(FATAL) << "TBD"
TbdOps ==
  {"GetRange", "GetLexRange", "ToListPack", "DeleteRangeByRank", "DeleteRangeByScore",
   "DeleteRangeByLex", "LexCount"}

\* what the function hands back after the log statement, were it to return
TbdDefault(op) ==
  IF op \in {"GetRange", "GetLexRange"} THEN <<>>
  ELSE IF op = "ToListPack" THEN None
  ELSE 0

\* faulty variant: the log statement is not fatal and the default is returned
DfTbdReturns(op) == [fatal |-> FALSE, ret |-> TbdDefault(op)]

\* LOG(FATAL) << "TBD"; return {};
DfTbd(op) == [fatal |-> TRUE, ret |-> TbdDefault(op)]

\* a DfImpl operation that is not implemented is called
UnimplementedCall(op) ==
  /\ Ready
  /\ impl = "DfImpl"
  /\ call' = [op |-> op]
  /\ LET r == DfTbd(op)
     IN /\ aborted' = r.fatal
        /\ ret' = IF r.fatal THEN [fatal |-> "TBD"] ELSE [ret |-> r.ret]
  /\ UNCHANGED <<impl, dict, zsl, score_map, score_tree, all_ids, indices, documents, search_indices, txq>>

Unimplemented == \E op \in TbdOps \ {"ToListPack"} : UnimplementedCall(op)

\* ------------------------------------------------------------------ listpack
\* Text in the model's alphabet: bytes 0..9 are the decimal digits, 10, 11, 12
\* the letters i, n, f and 13 the minus sign.
InfText == <<10, 11, 12>>

MinusInfText == <<13>> \o InfText

RECURSIVE DigitsValue(_)
DigitsValue(s) ==
  IF s = <<>> THEN 0 ELSE 10 * DigitsValue(SubSeq(s, 1, Len(s) - 1)) + s[Len(s)]

RECURSIVE DigitsOf(_)
DigitsOf(v) == IF v < 10 THEN <<v>> ELSE Append(DigitsOf(v \div 10), v % 10)

\* int string2ll(const char* s, size_t slen, long long* value): only the
\* canonical decimal text of a number converts
string2ll(s) ==
  LET neg == Len(s) > 0 /\ s[1] = 13
      body == IF neg THEN Tail(s) ELSE s
      ok == /\ Len(body) > 0
            /\ \A i \in 1 .. Len(body) : body[i] \in 0 .. 9
            /\ body[1] = 0 => (Len(body) = 1 /\ ~neg)
  IN [ok |-> ok, val |-> IF ~ok THEN 0 ELSE IF neg THEN 0 - DigitsValue(body) ELSE DigitsValue(body)]

\* sds sdsfromlonglong(long long value)
sdsfromlonglong(v) == IF v < 0 THEN <<13>> \o DigitsOf(0 - v) ELSE DigitsOf(v)

\* int d2string(char* buf, size_t len, double value)
d2string(score) ==
  IF score = PosInf THEN InfText
  ELSE IF score = NegInf THEN MinusInfText
  ELSE sdsfromlonglong(score)

\* double zzlStrtod(unsigned char* vstr, unsigned int vlen)
zzlStrtod(vstr) ==
  IF vstr = InfText THEN PosInf
  ELSE IF vstr = MinusInfText THEN NegInf
  ELSE string2ll(vstr).val

\* lpAppend: an entry is stored as an integer when its text is one
lpAppend(lp, s) ==
  LET n == string2ll(s)
  IN Append(lp, IF n.ok THEN [kind |-> "int", val |-> n.val] ELSE [kind |-> "str", val |-> s])

\* unsigned char* zzlInsertAt(zl, NULL, ele, score): element, then score, at the tail
zzlInsertAt(lp, ele, score) == lpAppend(lpAppend(lp, ele), d2string(score))

\* double zzlGetScore(unsigned char* sptr)
zzlGetScore(entry) == IF entry.kind = "str" THEN zzlStrtod(entry.val) ELSE entry.val

\* the loop of RdImpl::ToListPack from node `node` on
RECURSIVE ToListPackLoop(_, _, _)
ToListPackLoop(list, node, lp) ==
  IF node > Len(list) THEN lp
  ELSE ToListPackLoop(list, node + 1, zzlInsertAt(lp, list[node].ele, list[node].score))

\* faulty variant: the walk starts at the header's second node
RdToListPackSkipsFirst(list) == ToListPackLoop(list, 2, <<>>)

\* uint8_t* RdImpl::ToListPack(), on the skiplist `list`
RdToListPack(list) == ToListPackLoop(list, 1, <<>>)

\* the set a SortedMap object holds; zs.aborted: a CHECK or DCHECK ended the process
NewSortedMap ==
  [dict |-> EmptyMap, zsl |-> <<>>, score_map |-> EmptyMap, score_tree |-> <<>>,
   aborted |-> FALSE]

\* zs->Insert(score, ele) on the object FromListPack builds
ZsInsert(zs, variant, score, ele, dcheck) ==
  IF variant = "RdImpl" THEN
    LET r == RdInsert(zs.dict, zs.zsl, score, ele)
    IN [zs EXCEPT !.dict = r.dict, !.zsl = r.zsl, !.aborted = ~r.ret]
  ELSE
    LET r == DfInsert(zs.score_map, zs.score_tree, score, ele)
    IN IF ~r.added /\ dcheck
       THEN [zs EXCEPT !.score_map = r.score_map, !.aborted = TRUE]
       ELSE [zs EXCEPT !.score_map = r.score_map, !.score_tree = r.score_tree,
                       !.aborted = ~r.ret]

\* the loop of SortedMap::FromListPack; eptr is the element entry, eptr + 1 the score
RECURSIVE FromListPackLoop(_, _, _, _, _)
FromListPackLoop(lp, eptr, zs, variant, dcheck) ==
  IF eptr > Len(lp) \/ zs.aborted THEN zs
  ELSE IF eptr + 1 > Len(lp) THEN [zs EXCEPT !.aborted = TRUE]   \* CHECK(sptr != NULL)
  ELSE LET score == zzlGetScore(lp[eptr + 1])
           ele == IF lp[eptr].kind = "int" THEN sdsfromlonglong(lp[eptr].val)
                  ELSE lp[eptr].val
       IN FromListPackLoop(lp, eptr + 2, ZsInsert(zs, variant, score, ele, dcheck),
                           variant, dcheck)

\* unique_ptr<SortedMap> SortedMap::FromListPack(memory_resource* res, const uint8_t* lp)
FromListPackOf(lp, variant, dcheck) == FromListPackLoop(lp, 1, NewSortedMap, variant, dcheck)

\* SortedMap::ToListPack dispatches to the active variant
ToListPack ==
  /\ Ready
  /\ call' = [op |-> "ToListPack"]
  /\ IF impl = "RdImpl"
     THEN /\ aborted' = FALSE
          /\ ret' = [lp |-> RdToListPack(zsl)]
     ELSE LET r == DfTbd("ToListPack")
          IN /\ aborted' = r.fatal
             /\ ret' = IF r.fatal THEN [fatal |-> "TBD"] ELSE [ret |-> r.ret]
  /\ UNCHANGED <<impl, dict, zsl, score_map, score_tree, all_ids, indices, documents, search_indices, txq>>

\* SortedMap::FromListPack, given the buffer ToListPack has just returned; the
\* new object is of the variant the process runs with
FromListPack ==
  \E dcheck \in Builds :
    /\ ~aborted
    /\ call.op = "ToListPack"
    /\ call' = [op |-> "FromListPack", lp |-> ret.lp]
    /\ LET zs == FromListPackOf(ret.lp, impl, dcheck)
       IN /\ aborted' = zs.aborted
          /\ ret' = IF zs.aborted THEN [fatal |-> "CHECK"] ELSE [zs |-> zs]
    /\ UNCHANGED <<impl, dict, zsl, score_map, score_tree, all_ids, indices, documents, search_indices, txq>>

\* Conversion to and from the listpack, and the operations DfImpl leaves out,
\* over every population Insert, Add and Delete build.
NextConvert ==
  InsertNew \/ Delete \/ Unimplemented \/ ToListPack \/ FromListPack \/ Return

SpecConvert == Init /\ [][NextConvert]_vars

\* C11: every unimplemented DfImpl operation ends in the fatal TBD failure on
\* every call: the process ends there, nothing is returned to the caller and
\* the contents of the set are unchanged.
C11_TbdFatal ==
  [][/\ ~aborted
     /\ (call = Idle /\ call'.op \in TbdOps /\ impl = "DfImpl")
          => /\ aborted'
             /\ ret' = [fatal |-> "TBD"]
             /\ Content' = Content]_vars

\* C11 witness: DeleteRangeByScore was called on a tree of three and ended the process
C11_Witness ==
  /\ impl = "DfImpl"
  /\ call.op = "DeleteRangeByScore"
  /\ aborted
  /\ ret = [fatal |-> "TBD"]
  /\ Len(score_tree) = 3

\* the (member, score) pairs of an order structure, head first
PairsOf(nodes) == [i \in 1 .. Len(nodes) |-> Pair(nodes[i])]

\* the order structure of the object FromListPack returned
ZsOrder(zs) ==
  IF impl = "RdImpl" THEN zs.zsl
  ELSE [j \in 1 .. Len(zs.score_tree) |->
          [score |-> zs.score_tree[j].score, ele |-> zs.score_tree[j].ele]]

InitBoth ==
  /\ impl = "both"
  /\ dict = EmptyMap
  /\ zsl = <<>>
  /\ score_map = EmptyMap
  /\ score_tree = <<>>
  /\ call = Idle
  /\ ret = Idle
  /\ aborted = FALSE
  /\ all_ids = <<>>
  /\ indices = EmptyIndices
  /\ documents = EmptyMap
  /\ search_indices = [sh \in Shards |-> EmptyMap]
  /\ txq = <<>>

\* the order structure of the B+tree variant as (score, member) nodes
TreeOrder ==
  [j \in 1 .. Len(score_tree) |-> [score |-> score_tree[j].score, ele |-> score_tree[j].ele]]

\* the two sets hold the same pairs; the run goes on only while they do
SameContent == dict = score_map /\ zsl = TreeOrder

AddBoth ==
  \E score \in Scores, ele \in Members, in_flags \in InFlags :
    /\ Ready
    /\ impl = "both"
    /\ SameContent
    /\ call' = [op |-> "Add", score |-> score, ele |-> ele, in_flags |-> in_flags]
    /\ LET rd == RdAdd(dict, zsl, score, ele, in_flags)
           df == DfAdd(score_map, score_tree, score, ele, in_flags)
       IN /\ dict' = rd.dict
          /\ zsl' = rd.zsl
          /\ score_map' = df.score_map
          /\ score_tree' = df.score_tree
          /\ ret' = [rd |-> [ret |-> rd.ret, out_flags |-> rd.out_flags, newscore |-> rd.newscore],
                     df |-> [ret |-> df.ret, out_flags |-> df.out_flags, newscore |-> df.newscore]]
    /\ UNCHANGED <<impl, aborted, all_ids, indices, documents, search_indices, txq>>

DeleteBoth ==
  \E ele \in Members :
    /\ Ready
    /\ impl = "both"
    /\ SameContent
    /\ call' = [op |-> "Delete", ele |-> ele]
    /\ LET rd == RdDelete(dict, zsl, ele)
           df == DfDelete(score_map, score_tree, ele)
       IN /\ dict' = rd.dict
          /\ zsl' = rd.zsl
          /\ score_map' = df.score_map
          /\ score_tree' = df.score_tree
          /\ ret' = [rd |-> [ret |-> rd.ret], df |-> [ret |-> df.ret]]
    /\ UNCHANGED <<impl, aborted, all_ids, indices, documents, search_indices, txq>>

PopTopScoresBoth ==
  \E count \in 0 .. MaxCount, reverse \in BOOLEAN :
    \E outs \in [1 .. Min2(count, Len(zsl)) -> FreedReads] :
      /\ Ready
      /\ impl = "both"
      /\ SameContent
      /\ call' = [op |-> "PopTopScores", count |-> count, reverse |-> reverse]
      /\ LET rd == RdPopTopScores(dict, zsl, count, reverse, outs)
             df == DfPopTopScores(score_map, score_tree, count, reverse)
         IN /\ dict' = rd.dict
            /\ zsl' = rd.zsl
            /\ score_map' = df.score_map
            /\ score_tree' = df.score_tree
            /\ aborted' = rd.aborted
            /\ ret' = [rd |-> IF rd.aborted THEN [fatal |-> "abort"] ELSE [result |-> rd.result],
                       df |-> [result |-> df.result]]
      /\ UNCHANGED <<impl, all_ids, indices, documents, search_indices, txq>>

NextBoth == AddBoth \/ DeleteBoth \/ PopTopScoresBoth \/ Return

SpecBoth == InitBoth /\ [][NextBoth]_vars

\* C13: the two variants, given the same sequence of Add (any flags), Delete
\* and PopTopScores calls from empty, return the same result from each call,
\* and GetScore, GetRank and Count agree afterwards.
C13_Equivalent ==
  impl = "both" =>
    /\ call /= Idle => (~aborted /\ ret.rd = ret.df)
    /\ \A m \in Members : RdGetScore(dict, m) = DfGetScore(score_map, m)
    /\ SameContent =>
         /\ \A m \in Members, reverse \in BOOLEAN :
              RdGetRank(dict, zsl, m, reverse) = DfGetRank(score_map, score_tree, m, reverse)
         /\ \A range \in RangeSpecs :
              range.min <= range.max => RdCount(zsl, range) = DfCount(score_tree, range)

\* ------------------------------------------------------------ FieldIndices
\* std::upper_bound / std::lower_bound on a sorted sequence: the position of
\* the first element greater than (not less than) x
upper_bound(s, x) == 1 + Cardinality({i \in 1 .. Len(s) : s[i] <= x})

lower_bound(s, x) == 1 + Cardinality({i \in 1 .. Len(s) : s[i] < x})

\* the elements of a sequence
Elems(s) == {s[i] : i \in 1 .. Len(s)}

\* CompressedSortedSet::Insert and ::Remove
CssInsert(list, doc) ==
  IF doc \in Elems(list) THEN list ELSE InsertAt(list, lower_bound(list, doc), doc)

CssRemove(list, doc) == SelectSeq(list, LAMBDA x : x /= doc)

\* index->Add(doc, access, identifier) for every index of the schema
IndicesAdd(idx, doc, d) ==
  [text |-> [f \in TextFields |->
               [t \in Tokens |-> IF t \in d[f] THEN CssInsert(idx.text[f][t], doc)
                                 ELSE idx.text[f][t]]],
   tag |-> [t \in Tags |-> IF t \in d.tag THEN CssInsert(idx.tag[t], doc) ELSE idx.tag[t]],
   numeric |-> idx.numeric \cup {<<d.price, doc>>},
   vector |-> [x \in DOMAIN idx.vector \cup {doc} |-> IF x = doc THEN d.v ELSE idx.vector[x]]]

\* index->Remove(doc, access, identifier) for every index of the schema
IndicesRemove(idx, doc, d) ==
  [text |-> [f \in TextFields |->
               [t \in Tokens |-> IF t \in d[f] THEN CssRemove(idx.text[f][t], doc)
                                 ELSE idx.text[f][t]]],
   tag |-> [t \in Tags |-> IF t \in d.tag THEN CssRemove(idx.tag[t], doc) ELSE idx.tag[t]],
   numeric |-> idx.numeric \ {<<d.price, doc>>},
   vector |-> [x \in DOMAIN idx.vector \ {doc} |-> idx.vector[x]]]

\* faulty variant: the id is inserted before the first element not less than it,
\* found with the comparison reversed
AllIdsInsertFront(ids, doc) == <<doc>> \o ids

\* all_ids_.insert(upper_bound(all_ids_.begin(), all_ids_.end(), doc), doc)
AllIdsInsert(ids, doc) == InsertAt(ids, upper_bound(ids, doc), doc)

\* void FieldIndices::Add(DocId doc, DocumentAccessor* access)
FieldIndicesAdd(doc, d) ==
  /\ Ready
  /\ indices' = IndicesAdd(indices, doc, d)
  /\ all_ids' = AllIdsInsert(all_ids, doc)
  /\ documents' = [x \in DOMAIN documents \cup {doc} |-> IF x = doc THEN d ELSE documents[x]]
  /\ UNCHANGED <<impl, dict, zsl, score_map, score_tree, call, ret, aborted, search_indices, txq>>

\* void FieldIndices::Remove(DocId doc, DocumentAccessor* access); `d` is what
\* the accessor reads
FieldIndicesRemove(doc, d) ==
  /\ Ready
  /\ LET it == lower_bound(all_ids, doc)
     IN IF it <= Len(all_ids) /\ all_ids[it] = doc
        THEN /\ indices' = IndicesRemove(indices, doc, d)
             /\ all_ids' = RemoveAt(all_ids, it)
             /\ documents' = [x \in DOMAIN documents \ {doc} |-> documents[x]]
             /\ UNCHANGED <<call, ret, aborted>>
        ELSE /\ indices' = IndicesRemove(indices, doc, d)   \* the indices come first
             /\ aborted' = TRUE                              \* CHECK(it != end && *it == doc)
             /\ call' = [op |-> "Remove", doc |-> doc]
             /\ ret' = [fatal |-> "CHECK"]
             /\ UNCHANGED <<all_ids, documents>>
  /\ UNCHANGED <<impl, dict, zsl, score_map, score_tree, search_indices, txq>>

\* Add as the document index calls it: the doc id is not indexed yet
AddDoc == \E doc \in DocIds, d \in Documents : doc \notin DOMAIN documents /\ FieldIndicesAdd(doc, d)

\* Remove as the document index calls it: the doc id is indexed
RemoveDoc == \E doc \in DOMAIN documents : FieldIndicesRemove(doc, documents[doc])

\* what the accessor can read for a doc id: the document stored under it, any
\* document when none is
Readable(doc) == IF doc \in DOMAIN documents THEN {documents[doc]} ELSE Documents

\* Add and Remove with any doc id, indexed or not
AddAny ==
  \E doc \in DocIds :
    \E d \in Readable(doc) : Len(all_ids) <= MaxDoc /\ FieldIndicesAdd(doc, d)

RemoveAny == \E doc \in DocIds : \E d \in Readable(doc) : FieldIndicesRemove(doc, d)

InitSearch == Init /\ impl = "RdImpl"

NextIndexAny == AddAny \/ RemoveAny

SpecIndexAny == InitSearch /\ [][NextIndexAny]_vars

\* all_ids is sorted ascending with each id once
StrictlyAscending(s) == \A i \in 1 .. Len(s) - 1 : s[i] < s[i + 1]

\* C15: after any sequence of FieldIndices::Add and Remove calls, all_ids is
\* sorted ascending, holds each id once and holds exactly the doc ids added
\* and not since removed.
C15_AllIds ==
  ~aborted => (StrictlyAscending(all_ids) /\ Elems(all_ids) = DOMAIN documents)

\* ------------------------------------------------------------ query AST
AstStar == [type |-> "Star"]

AstEmpty == [type |-> "monostate"]

AstTerm(term) == [type |-> "Term", term |-> term]

AstRange(lo, hi) == [type |-> "Range", lo |-> lo, hi |-> hi]

AstNegate(node) == [type |-> "Negate", node |-> node]

AstLogical(op, nodes) == [type |-> "Logical", op |-> op, nodes |-> nodes]

AstField(field, node) == [type |-> "Field", field |-> field, node |-> node]

AstTags(tags) == [type |-> "Tags", tags |-> tags]

AstKnn(filter, limit, field, vector) ==
  [type |-> "Knn", filter |-> filter, limit |-> limit, field |-> field, vector |-> vector]

\* ------------------------------------------------------------ IndexResult
\* IndexResult(DocVec&&) and IndexResult(const CompressedSortedSet*)
OwnedResult(dv) == [owned |-> TRUE, docs |-> dv]

BorrowedResult(css) == IF css = <<>> THEN OwnedResult(<<>>) ELSE [owned |-> FALSE, docs |-> css]

\* std::set_intersection and std::set_union on two sorted ranges
RECURSIVE set_intersection(_, _)
set_intersection(s1, s2) ==
  IF s1 = <<>> \/ s2 = <<>> THEN <<>>
  ELSE IF Head(s1) < Head(s2) THEN set_intersection(Tail(s1), s2)
  ELSE IF Head(s2) < Head(s1) THEN set_intersection(s1, Tail(s2))
  ELSE <<Head(s1)>> \o set_intersection(Tail(s1), Tail(s2))

RECURSIVE set_union(_, _)
set_union(s1, s2) ==
  IF s1 = <<>> THEN s2
  ELSE IF s2 = <<>> THEN s1
  ELSE IF Head(s2) < Head(s1) THEN <<Head(s2)>> \o set_union(s1, Tail(s2))
  ELSE IF Head(s1) < Head(s2) THEN <<Head(s1)>> \o set_union(Tail(s1), s2)
  ELSE <<Head(s1)>> \o set_union(Tail(s1), Tail(s2))

\* std::binary_search on a sorted range
binary_search(s, x) ==
  LET it == lower_bound(s, x)
  IN it <= Len(s) /\ ~(x < s[it])

\* TextIndex::Matching and TagIndex::Matching: the posting list, borrowed
Matching(entries, key) == BorrowedResult(entries[key])

\* a set of doc ids as a sorted sequence
RECURSIVE SortedSeq(_)
SortedSeq(set) ==
  IF set = {} THEN <<>>
  ELSE LET m == CHOOSE x \in set : \A y \in set : x <= y
       IN <<m>> \o SortedSeq(set \ {m})

\* NumericIndex::Range(lo, hi): the docs whose value is in [lo, hi], sorted
NumericRange(entries, lo, hi) ==
  OwnedResult(SortedSeq({e[2] : e \in {x \in entries : lo <= x[1] /\ x[1] <= hi}}))

\* VectorDistance: the Euclidean distance, held as its square
VectorDistance(u, v) ==
  (u[1] - v[1]) * (u[1] - v[1]) + (u[2] - v[2]) * (u[2] - v[2])

\* ------------------------------------------------------------ BasicSearch
\* faulty variant: AND merges with set_union as well
MergeAlwaysUnion(matched, current, op) == OwnedResult(set_union(matched.docs, current.docs))

\* void Merge(IndexResult matched, IndexResult* current_ptr, LogicOp op)
Merge(matched, current, op) ==
  OwnedResult(IF op = "AND" THEN set_intersection(matched.docs, current.docs)
              ELSE set_union(matched.docs, current.docs))

\* FieldIndices::GetAllTextIndices: the TEXT fields in schema order
AllTextIndices == <<"title", "body">>

\* the children a container can have, and the orders an unstable sort can
\* leave equal-sized sub-results in: prio[i] ranks position i among its equals
MaxChildren == Len(AllTextIndices) + 1

Priorities ==
  {p \in [1 .. MaxChildren -> 1 .. MaxChildren] : \A i, j \in 1 .. MaxChildren : p[i] = p[j] => i = j}

\* sort(sub_results, [](l, r) { return l.Size() < r.Size(); })
SortBySize(rs, prio) ==
  LET before(j, i) ==
        \/ Len(rs[j].docs) < Len(rs[i].docs)
        \/ (Len(rs[j].docs) = Len(rs[i].docs) /\ prio[j] < prio[i])
  IN [k \in 1 .. Len(rs) |->
        rs[CHOOSE i \in 1 .. Len(rs) :
             Cardinality({j \in 1 .. Len(rs) : before(j, i)}) = k - 1]]

\* for (auto& matched : subspan(1)) Merge(move(matched), &out, op)
RECURSIVE MergeAll(_, _, _, _)
MergeAll(rs, i, out, op) ==
  IF i > Len(rs) THEN out ELSE MergeAll(rs, i + 1, Merge(rs[i], out, op), op)

\* IndexResult UnifyResults(vector<IndexResult>&& sub_results, LogicOp op)
UnifyResults(sub_results, op, prio) ==
  IF sub_results = <<>> THEN OwnedResult(<<>>)
  ELSE LET sorted == SortBySize(sub_results, prio)
       IN MergeAll(sorted, 2, sorted[1], op)

RECURSIVE SearchGeneric(_, _, _, _, _)

\* faulty variant: the empty query matches doc 1
SearchMonostateOne(node, active_field) == OwnedResult(<<1>>)

\* IndexResult Search(monostate, string_view)
SearchMonostate(node, active_field) == OwnedResult(<<>>)

\* IndexResult Search(const AstStarNode& node, string_view active_field)
SearchStar(node, active_field, ids) == OwnedResult(ids)

\* IndexResult Search(const AstTermNode& node, string_view active_field)
SearchTerm(node, active_field, idx, prio) ==
  IF active_field /= "" THEN Matching(idx.text[active_field], node.term)
  ELSE UnifyResults([i \in 1 .. Len(AllTextIndices) |->
                       Matching(idx.text[AllTextIndices[i]], node.term)], "OR", prio)

\* faulty variant: the matched docs are kept and the others dropped
SearchNegateKeeps(node, active_field, ids, idx, prio) ==
  LET matched == SearchGeneric(node.node, active_field, ids, idx, prio).docs
  IN OwnedResult(SelectSeq(ids, LAMBDA doc : binary_search(matched, doc)))

\* IndexResult Search(const AstNegateNode& node, string_view active_field)
SearchNegate(node, active_field, ids, idx, prio) ==
  LET matched == SearchGeneric(node.node, active_field, ids, idx, prio).docs
  IN OwnedResult(SelectSeq(ids, LAMBDA doc : ~binary_search(matched, doc)))

\* IndexResult Search(const AstLogicalNode& node, string_view active_field)
SearchLogical(node, active_field, ids, idx, prio) ==
  UnifyResults([i \in 1 .. Len(node.nodes) |->
                  SearchGeneric(node.nodes[i], active_field, ids, idx, prio)], node.op, prio)

\* IndexResult Search(const AstTagsNode& node, string_view active_field)
SearchTags(node, active_field, idx, prio) ==
  UnifyResults([i \in 1 .. Len(node.tags) |-> Matching(idx.tag, node.tags[i])], "OR", prio)

\* IndexResult SearchGeneric(const AstNode& node, string_view active_field, bool top_level)
\* for the node types a filter is made of
SearchGeneric(node, active_field, ids, idx, prio) ==
  CASE node.type = "monostate" -> SearchMonostate(node, active_field)
    [] node.type = "Star" -> SearchStar(node, active_field, ids)
    [] node.type = "Term" -> SearchTerm(node, active_field, idx, prio)
    [] node.type = "Range" -> NumericRange(idx.numeric, node.lo, node.hi)
    [] node.type = "Negate" -> SearchNegate(node, active_field, ids, idx, prio)
    [] node.type = "Logical" -> SearchLogical(node, active_field, ids, idx, prio)
    [] node.type = "Field" -> SearchGeneric(node.node, node.field, ids, idx, prio)
    [] node.type = "Tags" -> SearchTags(node, active_field, idx, prio)

\* operator< of pair<float, DocId>
PairLess(a, b) == a[1] < b[1] \/ (a[1] = b[1] /\ a[2] < b[2])

\* faulty variant: the pairs are compared by distance alone, later entries first
\* among equals
SortPairsByDistance(s) ==
  LET ahead(j, i) == s[j][1] < s[i][1] \/ (s[j][1] = s[i][1] /\ j > i)
  IN [k \in 1 .. Len(s) |->
        s[CHOOSE i \in 1 .. Len(s) : Cardinality({j \in 1 .. Len(s) : ahead(j, i)}) = k - 1]]

\* sort(distances_.begin(), distances_.end())
SortPairs(s) ==
  LET ahead(j, i) == PairLess(s[j], s[i]) \/ (s[j] = s[i] /\ j < i)
  IN [k \in 1 .. Len(s) |->
        s[CHOOSE i \in 1 .. Len(s) : Cardinality({j \in 1 .. Len(s) : ahead(j, i)}) = k - 1]]

\* faulty variant: the limit is not applied
KnnOutSizeAll(limit, size) == size

\* vector<DocId> out(min(knn.limit, distances_.size()))
KnnOutSize(limit, size) == Min2(limit, size)

\* IndexResult Search(const AstKnnNode& knn, string_view active_field); res is
\* the result, distances the member distances_ afterwards
SearchKnn(knn, active_field, ids, idx, prio) ==
  LET sub_results == SearchGeneric(knn.filter, active_field, ids, idx, prio)
      distances == SortPairs([i \in 1 .. Len(sub_results.docs) |->
                                <<VectorDistance(knn.vector, idx.vector[sub_results.docs[i]]),
                                  sub_results.docs[i]>>])
  IN [res |-> OwnedResult([i \in 1 .. KnnOutSize(knn.limit, Len(distances)) |-> distances[i][2]]),
      distances |-> distances]

\* faulty variant: the distances are read from the far end of distances_
SearchAstFromEnd(query, ids, idx, prio) ==
  LET r == IF query.type = "Knn" THEN SearchKnn(query, "", ids, idx, prio)
           ELSE [res |-> SearchGeneric(query, "", ids, idx, prio), distances |-> <<>>]
  IN IF r.distances /= <<>>
     THEN [doc_ids |-> r.res.docs,
           knn_distances |-> [i \in 1 .. Len(r.res.docs) |->
                                r.distances[Len(r.distances) + 1 - i][1]]]
     ELSE [doc_ids |-> r.res.docs, knn_distances |-> <<>>]

\* SearchResult Search(const AstNode& query), on a fresh BasicSearch
SearchAst(query, ids, idx, prio) ==
  LET r == IF query.type = "Knn" THEN SearchKnn(query, "", ids, idx, prio)
           ELSE [res |-> SearchGeneric(query, "", ids, idx, prio), distances |-> <<>>]
  IN IF r.distances /= <<>>
     THEN [doc_ids |-> r.res.docs,
           knn_distances |-> [i \in 1 .. Len(r.res.docs) |-> r.distances[i][1]]]
     ELSE [doc_ids |-> r.res.docs, knn_distances |-> <<>>]

\* ------------------------------------------------------------ the queries
\* filters without children
Leaves ==
  {AstTerm("apple"), AstTerm("banana"),
   AstField("title", AstTerm("apple")), AstField("body", AstTerm("banana")),
   AstField("tag", AstTags(<<"sale">>)), AstField("tag", AstTags(<<"sale", "new">>)),
   AstField("price", AstRange(15, 40)), AstField("price", AstRange(10, 10))}

\* the children of the logical nodes searched
Operands ==
  <<AstTerm("apple"), AstField("tag", AstTags(<<"sale">>)),
    AstField("price", AstRange(15, 40)), AstNegate(AstField("body", AstTerm("banana")))>>

\* the lists of up to MaxChildren operands, in the order of Operands, and one
\* list that holds an operand twice
ChildLists ==
  {[i \in 1 .. Len(f) |-> Operands[f[i]]] :
     f \in {g \in UNION {[1 .. n -> 1 .. Len(Operands)] : n \in 1 .. MaxChildren} :
              \A i \in 1 .. Len(g) - 1 : g[i] < g[i + 1]}}
  \cup {<<Operands[1], Operands[1]>>}

LogicOps == {"AND", "OR"}

Negations == {AstNegate(q) : q \in Leaves} \cup {AstNegate(AstNegate(q)) : q \in Leaves}

Logicals == {AstLogical(op, ns) : op \in LogicOps, ns \in ChildLists}

Filters == Leaves \cup Negations \cup Logicals

QueryVectors == {<<1, 1>>, <<5, 5>>}

KnnFilters ==
  {AstStar, AstField("tag", AstTags(<<"sale">>)),
   AstLogical("OR", <<AstTerm("banana"), AstField("price", AstRange(10, 10))>>)}

Knns ==
  {AstKnn(f, limit, "v", vec) : f \in KnnFilters, limit \in 0 .. MaxDoc + 1, vec \in QueryVectors}

Queries == {AstStar, AstEmpty} \cup Filters \cup Knns

\* the SearchGeneric calls made below a node, each as <<node, active_field>>:
\* the children of Logical, Negate and Field and the Knn filter
RECURSIVE SubCalls(_, _)
SubCalls(node, active_field) ==
  CASE node.type = "Negate" ->
         {<<node.node, active_field>>} \cup SubCalls(node.node, active_field)
    [] node.type = "Logical" ->
         UNION {{<<node.nodes[i], active_field>>} \cup SubCalls(node.nodes[i], active_field) :
                  i \in 1 .. Len(node.nodes)}
    [] node.type = "Field" ->
         {<<node.node, node.field>>} \cup SubCalls(node.node, node.field)
    [] node.type = "Knn" ->
         {<<node.filter, active_field>>} \cup SubCalls(node.filter, active_field)
    [] OTHER -> {}

\* the DocSets the non-top-level SearchGeneric calls of a query return
SubResults(query, ids, idx, prio) ==
  {SearchGeneric(c[1], c[2], ids, idx, prio).docs : c \in SubCalls(query, "")}

\* std::is_sorted
is_sorted(s) == \A i \in 1 .. Len(s) - 1 : s[i] <= s[i + 1]

\* SearchResult SearchAlgorithm::Search(const FieldIndices* index) const; a
\* build with DCHECKs ends at the first sub-result that is not sorted
SearchCall(query, prio, dcheck) ==
  /\ Ready
  /\ call' = [op |-> "Search", query |-> query]
  /\ IF dcheck /\ \E D \in SubResults(query, all_ids, indices, prio) : ~is_sorted(D)
     THEN aborted' = TRUE /\ ret' = [fatal |-> "DCHECK"]
     ELSE aborted' = FALSE /\ ret' = SearchAst(query, all_ids, indices, prio)
  /\ UNCHANGED <<impl, dict, zsl, score_map, score_tree, all_ids, indices, documents, search_indices, txq>>

Search ==
  \E query \in Queries, prio \in Priorities, dcheck \in BOOLEAN : SearchCall(query, prio, dcheck)

\* The index as the document index drives it: a doc id is added when it is not
\* indexed and removed when it is
NextSearch == AddDoc \/ RemoveDoc \/ Search \/ Return

SpecSearch == InitSearch /\ [][NextSearch]_vars

\* every posting list of the field indices is sorted with each id once
PostingsSorted ==
  /\ \A f \in TextFields, t \in Tokens : StrictlyAscending(indices.text[f][t])
  /\ \A t \in Tags : StrictlyAscending(indices.tag[t])

Searched == call.op = "Search"

EvalSet(q, prio) == Elems(SearchGeneric(q, "", all_ids, indices, prio).docs)

\* C16: Negate(q) returns exactly the doc ids of all_ids that are not in
\* eval(q), in ascending order, and Negate(Negate(q)) returns eval(q) as a set
\* whenever eval(q) is a subset of all_ids
C16_Negate ==
  (Searched /\ ~aborted /\ call.query.type = "Negate") =>
    \A prio \in Priorities :
      LET q == call.query.node
      IN /\ StrictlyAscending(ret.doc_ids)
         /\ Elems(ret.doc_ids) = Elems(all_ids) \ EvalSet(q, prio)
         /\ (q.type = "Negate" /\ EvalSet(q.node, prio) \subseteq Elems(all_ids)) =>
              Elems(ret.doc_ids) = EvalSet(q.node, prio)

\* a double negation was searched over MaxDoc documents of which its child
\* matches some and not all
C16_Witness ==
  /\ Searched /\ ~aborted
  /\ call.query = AstNegate(AstNegate(AstTerm("apple")))
  /\ Len(all_ids) = MaxDoc
  /\ ret.doc_ids /= <<>>
  /\ Len(ret.doc_ids) < MaxDoc
  /\ Elems(ret.doc_ids) = EvalSet(AstTerm("apple"), [i \in 1 .. MaxChildren |-> i])

\* the permutations of n positions
Perms(n) == {p \in [1 .. n -> 1 .. n] : \A i, j \in 1 .. n : p[i] = p[j] => i = j}

\* the regroupings of a child list: a leading group, a trailing group or both
\* turned into one child with the same operator
Regroupings(op, nodes) ==
  UNION {{<<AstLogical(op, SubSeq(nodes, 1, k))>> \o SubSeq(nodes, k + 1, Len(nodes)),
          SubSeq(nodes, 1, k) \o <<AstLogical(op, SubSeq(nodes, k + 1, Len(nodes)))>>,
          <<AstLogical(op, SubSeq(nodes, 1, k)),
            AstLogical(op, SubSeq(nodes, k + 1, Len(nodes)))>>} : k \in 1 .. Len(nodes) - 1}

\* the doc ids a query returns
EvalDocs(q, prio) == SearchAst(q, all_ids, indices, prio).doc_ids

\* C17: a Logical node with at least one child returns the set intersection
\* (AND) or set union (OR) of its children's results, and returns the same for
\* every permutation and regrouping of the children and every order the size
\* sort leaves equal-sized sub-results in
C17_Logical ==
  (Searched /\ ~aborted /\ call.query.type = "Logical") =>
    LET op == call.query.op
        nodes == call.query.nodes
        n == Len(nodes)
    IN \A prio \in Priorities :
         /\ StrictlyAscending(ret.doc_ids)
         /\ Elems(ret.doc_ids) =
              IF op = "AND"
              THEN {d \in EvalSet(nodes[1], prio) : \A i \in 1 .. n : d \in EvalSet(nodes[i], prio)}
              ELSE UNION {EvalSet(nodes[i], prio) : i \in 1 .. n}
         /\ \A p \in Perms(n) :
              EvalDocs(AstLogical(op, [i \in 1 .. n |-> nodes[p[i]]]), prio) = ret.doc_ids
         /\ \A g \in Regroupings(op, nodes) : EvalDocs(AstLogical(op, g), prio) = ret.doc_ids

\* an AND of a borrowed posting list, an owned range result and an owned union
\* was searched; two of the children have the same size and differ, and some
\* doc is in all three
C17_Witness ==
  /\ Searched /\ ~aborted
  /\ call.query = AstLogical("AND", <<Operands[1], Operands[2], Operands[3]>>)
  /\ ret.doc_ids /= <<>>
  /\ LET rs == [i \in 1 .. 3 |->
                  SearchGeneric(Operands[i], "", all_ids, indices, [j \in 1 .. MaxChildren |-> j])]
     IN /\ ~rs[2].owned /\ rs[1].owned /\ rs[3].owned
        /\ Len(rs[2].docs) = Len(rs[3].docs)
        /\ rs[2].docs /= rs[3].docs
        /\ Len(ret.doc_ids) < Len(rs[2].docs)

\* the distance of an indexed doc to the query vector of a Knn node
DistanceOf(knn, doc) == VectorDistance(knn.vector, indices.vector[doc])

\* C18: a root Knn node with limit k and filter result F returns exactly
\* min(k, |F|) docs, all of them in F, and no doc of F that is left out is
\* strictly closer to the query vector than a returned doc
C18_Knn ==
  (Searched /\ ~aborted /\ call.query.type = "Knn") =>
    \A prio \in Priorities :
      LET knn == call.query
          F == SearchGeneric(knn.filter, "", all_ids, indices, prio).docs
          out == ret.doc_ids
      IN /\ Len(out) = Min2(knn.limit, Len(F))
         /\ Cardinality(Elems(out)) = Len(out)
         /\ Elems(out) \subseteq Elems(F)
         /\ \A d \in Elems(F) \ Elems(out), r \in Elems(out) :
              ~(DistanceOf(knn, d) < DistanceOf(knn, r))

\* a Knn with a limit below the size of its filter result was searched, and a
\* doc that is left out is farther than every returned doc
C18_Witness ==
  /\ Searched /\ ~aborted
  /\ call.query.type = "Knn"
  /\ call.query.filter = AstField("tag", AstTags(<<"sale">>))
  /\ call.query.limit = 1
  /\ Len(ret.doc_ids) = 1
  /\ \E d \in EvalSet(call.query.filter, [i \in 1 .. MaxChildren |-> i]) :
       DistanceOf(call.query, d) > DistanceOf(call.query, ret.doc_ids[1])

\* C19: the distances of a SearchResult are filled exactly when the query has
\* a Knn node: then they are as many as the doc ids, the one at position i is
\* the distance of the doc at position i to the query vector, and they are
\* non-decreasing; for a query without a Knn node they are empty
C19_Distances ==
  (Searched /\ ~aborted) =>
    LET q == call.query
        D == ret.knn_distances
    IN IF q.type = "Knn"
       THEN /\ Len(D) = Len(ret.doc_ids)
            /\ \A i \in 1 .. Len(D) : D[i] = DistanceOf(q, ret.doc_ids[i])
            /\ \A i \in 1 .. Len(D) - 1 : D[i] <= D[i + 1]
       ELSE D = <<>>

\* a Knn over all MaxDoc documents was searched with a limit that cuts the
\* result, and the returned distances differ
C19_Witness ==
  /\ Searched /\ ~aborted
  /\ call.query.type = "Knn"
  /\ call.query.filter = AstStar
  /\ Len(all_ids) = MaxDoc
  /\ Len(ret.knn_distances) = MaxDoc - 1
  /\ Len(ret.doc_ids) = MaxDoc - 1
  /\ ret.knn_distances[1] < ret.knn_distances[MaxDoc - 1]

\* the four documents of the tie example, coordinates in tenths: doc ids 1 to 4
\* with the vectors (0,0), (1,0), (0,1) and (5,5)
ExampleVectors == <<(<<0, 0>>), (<<10, 0>>), (<<0, 10>>), (<<50, 50>>)>>

RECURSIVE ExampleIndices(_)
ExampleIndices(n) ==
  IF n = 0 THEN EmptyIndices
  ELSE IndicesAdd(ExampleIndices(n - 1), n, CHOOSE d \in Documents : d.v = ExampleVectors[n])

\* *=>[KNN 2 @v $q] with $q = (0.1, 0.1)
ExampleQuery == AstKnn(AstStar, 2, "v", <<1, 1>>)

\* C20: docs of the Knn filter result at the same distance to the query vector
\* are returned in ascending doc id order, and the limit cut keeps the smaller
\* doc ids among them; the four example vectors with limit 2 give [1, 2]
C20_Ties ==
  /\ (Searched /\ ~aborted /\ call.query.type = "Knn") =>
       \A prio \in Priorities :
         LET knn == call.query
             F == SearchGeneric(knn.filter, "", all_ids, indices, prio).docs
             out == ret.doc_ids
         IN /\ \A i, j \in 1 .. Len(out) :
                 (i < j /\ DistanceOf(knn, out[i]) = DistanceOf(knn, out[j])) => out[i] < out[j]
            /\ \A d \in Elems(F) \ Elems(out), r \in Elems(out) :
                 DistanceOf(knn, d) = DistanceOf(knn, r) => r < d
  /\ \A prio \in Priorities :
       SearchAst(ExampleQuery, <<1, 2, 3, 4>>, ExampleIndices(4), prio).doc_ids = <<1, 2>>

\* the example query was searched over the first three example documents:
\* docs 2 and 3 are at the same distance and the cut keeps doc 2
C20_Witness ==
  /\ Searched /\ ~aborted
  /\ call.query = ExampleQuery
  /\ all_ids = <<1, 2, 3>>
  /\ \A d \in 1 .. 3 : documents[d].v = ExampleVectors[d]
  /\ DistanceOf(ExampleQuery, 2) = DistanceOf(ExampleQuery, 3)
  /\ ret.doc_ids = <<1, 2>>

\* C21: the empty query returns no doc ids and no distances over any field
\* indices, and a Star query over field indices without documents returns an
\* empty result; neither ends the process
C21_EmptyQuery ==
  /\ (Searched /\ call.query = AstEmpty) =>
       (~aborted /\ ret = [doc_ids |-> <<>>, knn_distances |-> <<>>])
  /\ (Searched /\ call.query = AstStar /\ all_ids = <<>>) =>
       (~aborted /\ ret = [doc_ids |-> <<>>, knn_distances |-> <<>>])

\* the empty query was searched over MaxDoc documents, all of which a Star
\* query returns
C21_Witness ==
  /\ Searched /\ ~aborted
  /\ call.query = AstEmpty
  /\ Len(all_ids) = MaxDoc
  /\ ret.doc_ids = <<>>
  /\ EvalDocs(AstStar, [i \in 1 .. MaxChildren |-> i]) = all_ids

\* ------------------------------------------------------- search commands
\* command arguments: words, decimal numbers and raw bytes
Word(w) == [kind |-> "word", word |-> w, num |-> 0]

Num(n) == [kind |-> "num", word |-> "", num |-> n]

Blob == [kind |-> "bytes", word |-> "vec", num |-> 0]

\* ArgS(args, i), i counted from 0
ArgS(args, i) == args[i + 1]

\* ToUpper / absl::AsciiStrToUpper on the words the commands look for
ToUpper(w) ==
  CASE w = "limit" -> "LIMIT"
    [] w = "params" -> "PARAMS"
    [] w = "schema" -> "SCHEMA"
    [] w = "text" -> "TEXT"
    [] OTHER -> w

\* the argument, upper-cased, is the keyword
IsKeyword(arg, w) == arg.kind = "word" /\ ToUpper(arg.word) = w

\* absl::SimpleAtoi into a size_t
SimpleAtoi(arg) ==
  IF arg.kind = "num" /\ arg.num >= 0 THEN [ok |-> TRUE, val |-> arg.num]
  ELSE [ok |-> FALSE, val |-> 0]

kSyntaxErr == "syntax error"

kInvalidIntErr == "value is not an integer or out of range"

\* the reply builder: what SendError, SendOk, StartArray, SendLong and
\* SendSerializedDoc put on the connection
SendError(msg) == <<[t |-> "err", v |-> msg]>>

SendOk == <<[t |-> "ok", v |-> "OK"]>>

StartArray(n) == <<[t |-> "array", v |-> n]>>

SendLong(n) == <<[t |-> "long", v |-> n]>>

SendSerializedDoc(doc) == <<[t |-> "doc", v |-> doc]>>

\* the loop of ParseSearchParamsOrReply from argument i on
RECURSIVE ParseSearchParamsLoop(_, _, _, _, _)
ParseSearchParamsLoop(args, i, limit_offset, limit_total, knn_vector) ==
  IF i >= Len(args)
  THEN [ok |-> TRUE, limit_offset |-> limit_offset, limit_total |-> limit_total,
        knn_vector |-> knn_vector]
  ELSE IF IsKeyword(ArgS(args, i), "LIMIT")
  THEN IF i + 2 >= Len(args) THEN [ok |-> FALSE, reply |-> SendError(kSyntaxErr)]
       ELSE IF ~SimpleAtoi(ArgS(args, i + 1)).ok \/ ~SimpleAtoi(ArgS(args, i + 2)).ok
       THEN [ok |-> FALSE, reply |-> SendError(kInvalidIntErr)]
       ELSE ParseSearchParamsLoop(args, i + 3, SimpleAtoi(ArgS(args, i + 1)).val,
                                  SimpleAtoi(ArgS(args, i + 2)).val, knn_vector)
  ELSE IF IsKeyword(ArgS(args, i), "PARAMS")
  THEN IF i + 3 >= Len(args) THEN [ok |-> FALSE, reply |-> SendError(kSyntaxErr)]
       ELSE ParseSearchParamsLoop(args, i + 4, limit_offset, limit_total, ArgS(args, i + 3).word)
  ELSE ParseSearchParamsLoop(args, i + 1, limit_offset, limit_total, knn_vector)

DefaultLimitTotal == 10

\* optional<SearchParams> ParseSearchParamsOrReply(CmdArgList args, ConnectionContext* cntx)
ParseSearchParamsOrReply(args) == ParseSearchParamsLoop(args, 0, 0, DefaultLimitTotal, "")

\* the docs of all shards, shard after shard, from shard sh on
RECURSIVE ShardOrder(_, _)
ShardOrder(results, sh) ==
  IF sh > NumShards THEN <<>> ELSE results[sh].docs \o ShardOrder(results, sh + 1)

RECURSIVE TotalHits(_, _)
TotalHits(results, sh) ==
  IF sh > NumShards THEN 0 ELSE results[sh].total_hits + TotalHits(results, sh + 1)

\* the docs a reply carries, one SendSerializedDoc each
RECURSIVE SendDocs(_)
SendDocs(docs) ==
  IF docs = <<>> THEN <<>> ELSE SendSerializedDoc(Head(docs)) \o SendDocs(Tail(docs))

\* faulty variant: the skipped docs are not taken off what is left to send
ResponseCountNoSkip(total_count, params) == Min2(total_count, params.limit_total)

\* size_t response_count = min(total_count - min(total_count, limit_offset), limit_total)
ResponseCount(total_count, params) ==
  Min2(total_count - Min2(total_count, params.limit_offset), params.limit_total)

\* void ReplyWithResults(const SearchParams& params, Span<SearchResult> results, cntx)
ReplyWithResults(params, results) ==
  LET total_count == TotalHits(results, 1)
      response_count == ResponseCount(total_count, params)
      all == ShardOrder(results, 1)
      first == params.limit_offset + 1
      last == Min2(Len(all), params.limit_offset + response_count)
  IN StartArray(response_count * 2 + 1) \o SendLong(total_count)
       \o (IF first <= last THEN SendDocs(SubSeq(all, first, last)) ELSE <<>>)

\* partial_sort(docs.begin(), docs.begin() + middle, docs.end(), by knn_distance):
\* the arrangements it can leave in the first middle places. Equal distances
\* come in any order; a middle past the end is undefined and leaves any
\* arrangement when it does not fault
PartialSortOutcomes(docs, middle) ==
  LET n == Len(docs)
      m == Min2(middle, n)
      valid(g) ==
        /\ \A i, j \in 1 .. m : g[i] = g[j] => i = j
        /\ middle <= n =>
             /\ \A i \in 1 .. m - 1 : docs[g[i]].knn_distance <= docs[g[i + 1]].knn_distance
             /\ \A j \in 1 .. n :
                  (\A i \in 1 .. m : g[i] /= j) =>
                    \A i \in 1 .. m : docs[g[i]].knn_distance <= docs[j].knn_distance
  IN {[i \in 1 .. m |-> docs[g[i]]] : g \in {h \in [1 .. m -> 1 .. n] : valid(h)}}

\* void ReplyKnn(size_t knn_limit, const SearchParams& params, Span<SearchResult> results, cntx)
\* with `sorted` what partial_sort left in front and `faults` whether an
\* undefined partial_sort ends the process
ReplyKnn(knn_limit, params, results, sorted, faults) ==
  LET docs == ShardOrder(results, 1)
      middle == Min2(params.limit_offset + params.limit_total, knn_limit)
      size == Min2(Len(docs), knn_limit)
      response_count == ResponseCount(size, params)
      head == StartArray(response_count * 2 + 1) \o SendLong(size)
  IN IF middle > Len(docs) /\ faults THEN [fatal |-> "fault", reply |-> <<>>]
     ELSE IF params.limit_offset > size
     THEN [fatal |-> "out_of_range", reply |-> head]   \* Span::subspan throws
     ELSE [fatal |-> "",
           reply |-> head \o (IF response_count > 0
                              THEN SendDocs(SubSeq(sorted, params.limit_offset + 1,
                                                   params.limit_offset + response_count))
                              ELSE <<>>)]

\* kSchemaTypes and kIgnoredOptions
kSchemaTypes == {"TAG", "TEXT", "NUMERIC", "VECTOR"}

kIgnoredOptions == {"WEIGHT", "SEPARATOR", "TYPE", "DIM", "DISTANCE_METRIC"}

\* jsoncons::jsonpath::make_expression sets the error code
BadJsonPath(field) == field.kind /= "word"

\* while (i + 2 < args.size() && kIgnoredOptions.count(ArgS(args, i + 1)) > 0) i += 2
RECURSIVE SkipIgnored(_, _)
SkipIgnored(args, i) ==
  IF i + 2 < Len(args) /\ ArgS(args, i + 1).kind = "word"
       /\ ArgS(args, i + 1).word \in kIgnoredOptions
  THEN SkipIgnored(args, i + 2) ELSE i

\* the loop of ParseSchemaOrReply from argument i on, fields the schema so far
RECURSIVE ParseSchemaLoop(_, _, _, _)
ParseSchemaLoop(type, args, i, fields) ==
  IF i >= Len(args) THEN [ok |-> TRUE, schema |-> fields]
  ELSE
    LET field == ArgS(args, i)
        has_alias == (i + 1) + 1 < Len(args) /\ IsKeyword(ArgS(args, i + 1), "AS")
        field_alias == IF has_alias THEN ArgS(args, i + 2) ELSE field
        t == IF has_alias THEN i + 3 ELSE i + 1
    IN IF type = "JSON" /\ BadJsonPath(field)
       THEN [ok |-> FALSE, reply |-> SendError("Bad json path")]
       ELSE IF t >= Len(args)
       THEN [ok |-> FALSE, reply |-> SendError("No field type for field")]
       ELSE IF ~(ArgS(args, t).kind = "word" /\ ToUpper(ArgS(args, t).word) \in kSchemaTypes)
       THEN [ok |-> FALSE, reply |-> SendError("Invalid field type")]
       ELSE LET type_str == ToUpper(ArgS(args, t).word)
                u == IF type_str = "VECTOR" THEN t + 2 ELSE t
            IN ParseSchemaLoop(type, args, SkipIgnored(args, u) + 1,
                               fields \cup {[alias |-> field_alias.word,
                                             identifier |-> field.word, type |-> type_str]})

\* optional<search::Schema> ParseSchemaOrReply(DocIndex::DataType type, CmdArgList args, cntx)
ParseSchemaOrReply(type, args) == ParseSchemaLoop(type, args, 0, {})

\* args.subspan(i)
Subspan(args, i) == SubSeq(args, i + 1, Len(args))

\* DocIndex index{}
EmptyDocIndex == [type |-> "HASH", prefix |-> "", schema |-> {}]

\* the [SCHEMA] branch of FtCreate with SCHEMA at argument i:
\* if (i++ >= args.size()) tests i before it is incremented
FtCreateSchema(args, i, index) ==
  IF i >= Len(args) THEN [ok |-> FALSE, reply |-> SendError("Empty schema")]
  ELSE LET schema == ParseSchemaOrReply(index.type, Subspan(args, i + 1))
       IN IF ~schema.ok THEN schema
          ELSE [ok |-> TRUE, index |-> [index EXCEPT !.schema = schema.schema]]

\* the argument loop of FtCreate from argument i on
RECURSIVE FtCreateLoop(_, _, _)
FtCreateLoop(args, i, index) ==
  IF i >= Len(args) THEN [ok |-> TRUE, index |-> index]
  ELSE IF IsKeyword(ArgS(args, i), "ON")
  THEN IF i + 1 >= Len(args) THEN [ok |-> FALSE, reply |-> SendError(kSyntaxErr)]
       ELSE IF IsKeyword(ArgS(args, i + 1), "HASH")
       THEN FtCreateLoop(args, i + 2, [index EXCEPT !.type = "HASH"])
       ELSE IF IsKeyword(ArgS(args, i + 1), "JSON")
       THEN FtCreateLoop(args, i + 2, [index EXCEPT !.type = "JSON"])
       ELSE [ok |-> FALSE, reply |-> SendError("Invalid rule type")]
  ELSE IF IsKeyword(ArgS(args, i), "PREFIX")
  THEN IF i + 2 >= Len(args) THEN [ok |-> FALSE, reply |-> SendError(kSyntaxErr)]
       ELSE IF ~(ArgS(args, i + 1).kind = "num" /\ ArgS(args, i + 1).num = 1)
       THEN [ok |-> FALSE, reply |-> SendError("Multiple prefixes are not supported")]
       ELSE FtCreateLoop(args, i + 3, [index EXCEPT !.prefix = ArgS(args, i + 2).word])
  ELSE IF IsKeyword(ArgS(args, i), "SCHEMA")
  THEN FtCreateSchema(args, i, index)
  ELSE FtCreateLoop(args, i + 1, index)

\* the query strings FT.SEARCH is given, each as what the parser makes of it:
\* it throws, or it returns an AST, the empty one for an empty query
MaxKnn == 2

QueryStrings ==
  {[throws |-> TRUE, ast |-> AstEmpty], [throws |-> FALSE, ast |-> AstEmpty],
   [throws |-> FALSE, ast |-> AstTerm("apple")]}
  \cup {[throws |-> FALSE, ast |-> AstKnn(AstStar, k, "v", <<1, 1>>)] : k \in 0 .. MaxKnn}

\* bool SearchAlgorithm::Init(string_view query, const QueryParams& params)
SearchAlgorithmInit(query_str) == ~query_str.throws /\ query_str.ast.type /= "monostate"

\* optional<size_t> SearchAlgorithm::HasKnn() const
HasKnn(query) == IF query.type = "Knn" THEN Some(query.limit) ELSE None

\* the argument lists of FT.SEARCH after the index name and the query
SearchArgs ==
  {<<>>,
   <<Word("LIMIT"), Num(0), Num(1)>>,
   <<Word("limit"), Num(1), Num(2)>>,
   <<Word("LIMIT"), Num(3), Num(1)>>,
   <<Word("LIMIT"), Num(1), Num(0)>>,
   <<Word("LIMIT"), Num(1)>>,
   <<Word("LIMIT"), Word("x"), Num(1)>>,
   <<Word("LIMIT"), Num(0), Num(0 - 1)>>,
   <<Word("PARAMS"), Num(2), Word("q"), Blob>>,
   <<Word("PARAMS"), Num(2), Word("q")>>,
   <<Word("LIMIT"), Num(1), Num(1), Word("PARAMS"), Num(2), Word("q"), Blob>>,
   <<Word("NOCONTENT")>>}

IndexNames == {"idx", "idx2"}

\* the argument lists of FT.CREATE
CreateArgs ==
  {<<Word("idx")>>,
   <<Word("idx"), Word("SCHEMA")>>,
   <<Word("idx"), Word("ON"), Word("HASH"), Word("schema")>>,
   <<Word("idx"), Word("SCHEMA"), Word("title"), Word("TEXT")>>,
   <<Word("idx2"), Word("ON"), Word("JSON"), Word("PREFIX"), Num(1), Word("doc:"),
     Word("SCHEMA"), Word("$.t"), Word("AS"), Word("t"), Word("text"),
     Word("v"), Word("VECTOR"), Word("FLAT"), Num(6), Word("DIM"), Num(2)>>,
   <<Word("idx"), Word("SCHEMA"), Word("title")>>,
   <<Word("idx"), Word("SCHEMA"), Word("title"), Word("BLOB")>>,
   <<Word("idx"), Word("ON")>>,
   <<Word("idx"), Word("ON"), Word("SET")>>,
   <<Word("idx"), Word("PREFIX"), Num(2), Word("a"), Word("b")>>,
   <<Word("idx"), Word("PREFIX"), Num(1)>>,
   <<Word("idx"), Word("ON"), Word("JSON"), Word("SCHEMA"), Num(1), Word("TEXT")>>}

\* the matches a shard can have for a query: their distances, ascending (zero
\* without a Knn node), at most MaxHits and at most the Knn limit
MaxHits == 2

Distances == {1, 2}

ShardHits(query) ==
  IF query.type = "Knn"
  THEN {h \in UNION {[1 .. n -> Distances] : n \in 0 .. Min2(MaxHits, query.limit)} :
          \A i \in 1 .. Len(h) - 1 : h[i] <= h[i + 1]}
  ELSE UNION {{[i \in 1 .. n |-> 0]} : n \in 0 .. MaxHits}

\* SearchResult ShardDocIndex::Search(op_args, params, search_algo): the docs
\* serialized, at most limit_offset + limit_total, and the number of matches
ShardSearch(sh, params, hits) ==
  [docs |-> [i \in 1 .. Min2(Len(hits), params.limit_offset + params.limit_total) |->
               [key |-> <<sh, i>>, knn_distance |-> hits[i]]],
   total_hits |-> Len(hits)]

\* SearchResult{}
EmptySearchResult == [docs |-> <<>>, total_hits |-> 0]

\* the commands that can be scheduled and not concluded at a time
MaxInFlight == 2

\* a command is scheduled when the last reply was read and the model has room
\* for it; a search is followed alone
CanSchedule(op) ==
  /\ Ready
  /\ Len(txq) < MaxInFlight
  /\ \A k \in 1 .. Len(txq) : txq[k].op /= "FT.SEARCH"
  /\ op = "FT.SEARCH" => txq = <<>>

\* a command that replies without a transaction hop
ReplyNow(op, args, reply) ==
  /\ call' = [op |-> op, args |-> args]
  /\ ret' = [reply |-> reply]
  /\ UNCHANGED <<aborted, search_indices, txq>>

\* void SearchFamily::FtCreate(CmdArgList args, ConnectionContext* cntx) up to
\* ScheduleSingleHop
FtCreateCall(args) ==
  /\ CanSchedule("FT.CREATE")
  /\ LET r == FtCreateLoop(args, 1, EmptyDocIndex)
     IN IF r.ok
        THEN /\ txq' = Append(txq, [op |-> "FT.CREATE", args |-> args, ran |-> {},
                                    idx_name |-> ArgS(args, 0).word, index |-> r.index])
             /\ UNCHANGED <<call, ret, aborted, search_indices>>
        ELSE ReplyNow("FT.CREATE", args, r.reply)
  /\ UNCHANGED <<impl, dict, zsl, score_map, score_tree, all_ids, indices, documents>>

FtCreate == \E args \in CreateArgs : FtCreateCall(args)

\* void SearchFamily::FtDropIndex(CmdArgList args, ConnectionContext* cntx) up to
\* ScheduleSingleHop
FtDropIndexCall(idx_name) ==
  /\ CanSchedule("FT.DROPINDEX")
  /\ txq' = Append(txq, [op |-> "FT.DROPINDEX", args |-> <<Word(idx_name)>>, ran |-> {},
                         idx_name |-> idx_name, num_deleted |-> 0])
  /\ UNCHANGED <<impl, dict, zsl, score_map, score_tree, call, ret, aborted, all_ids, indices,
                 documents, search_indices>>

FtDropIndex == \E idx_name \in IndexNames : FtDropIndexCall(idx_name)

\* void SearchFamily::FtSearch(CmdArgList args, ConnectionContext* cntx) up to
\* ScheduleSingleHop
FtSearchCall(index_name, query_str, args) ==
  /\ CanSchedule("FT.SEARCH")
  /\ LET params == ParseSearchParamsOrReply(args)
         all_args == <<Word(index_name), query_str>> \o args
     IN IF ~params.ok THEN ReplyNow("FT.SEARCH", all_args, params.reply)
        ELSE IF ~SearchAlgorithmInit(query_str)
        THEN ReplyNow("FT.SEARCH", all_args, SendError("Query syntax error"))
        ELSE /\ txq' = Append(txq, [op |-> "FT.SEARCH", args |-> all_args, ran |-> {},
                                    index_name |-> index_name, params |-> params,
                                    query |-> query_str.ast, index_not_found |-> FALSE,
                                    docs |-> [sh \in Shards |-> EmptySearchResult]])
             /\ UNCHANGED <<call, ret, aborted, search_indices>>
  /\ UNCHANGED <<impl, dict, zsl, score_map, score_tree, all_ids, indices, documents>>

FtSearch ==
  \E index_name \in IndexNames, query_str \in QueryStrings, args \in SearchArgs :
    FtSearchCall(index_name, query_str, args)

\* txq with transaction k replaced / taken out
TxSet(k, tx) == [txq EXCEPT ![k] = tx]

TxDone(k) == SubSeq(txq, 1, k - 1) \o SubSeq(txq, k + 1, Len(txq))

\* ShardDocIndices::InitIndex and ShardDocIndices::DropIndex on one shard's map
InitIndex(shard_indices, idx_name, index) ==
  [n \in DOMAIN shard_indices \cup {idx_name} |->
     IF n = idx_name THEN index ELSE shard_indices[n]]

DropIndex(shard_indices, idx_name) ==
  [n \in DOMAIN shard_indices \ {idx_name} |-> shard_indices[n]]

\* a shard runs the transactions in the order they were scheduled
Runnable(k, sh) ==
  /\ ~aborted
  /\ k \in 1 .. Len(txq)
  /\ sh \notin txq[k].ran
  /\ \A j \in 1 .. k - 1 : sh \in txq[j].ran

\* faulty variant: only the first shard registers the index
FtCreateShardFirstOnly(k, sh) ==
  /\ Runnable(k, sh)
  /\ txq[k].op = "FT.CREATE"
  /\ search_indices' =
       [search_indices EXCEPT
          ![sh] = IF sh = 1 THEN InitIndex(@, txq[k].idx_name, txq[k].index) ELSE @]
  /\ txq' = TxSet(k, [txq[k] EXCEPT !.ran = @ \cup {sh}])
  /\ UNCHANGED <<impl, dict, zsl, score_map, score_tree, call, ret, aborted, all_ids, indices,
                 documents>>

\* the hop callback of FtCreate on shard sh
FtCreateShard(k, sh) ==
  /\ Runnable(k, sh)
  /\ txq[k].op = "FT.CREATE"
  /\ search_indices' =
       [search_indices EXCEPT ![sh] = InitIndex(@, txq[k].idx_name, txq[k].index)]
  /\ txq' = TxSet(k, [txq[k] EXCEPT !.ran = @ \cup {sh}])
  /\ UNCHANGED <<impl, dict, zsl, score_map, score_tree, call, ret, aborted, all_ids, indices,
                 documents>>

\* the hop callback of FtDropIndex on shard sh
FtDropIndexShard(k, sh) ==
  /\ Runnable(k, sh)
  /\ txq[k].op = "FT.DROPINDEX"
  /\ search_indices' = [search_indices EXCEPT ![sh] = DropIndex(@, txq[k].idx_name)]
  /\ txq' = TxSet(k, [txq[k] EXCEPT
                        !.ran = @ \cup {sh},
                        !.num_deleted =
                          IF txq[k].idx_name \in DOMAIN search_indices[sh] THEN @ + 1 ELSE @])
  /\ UNCHANGED <<impl, dict, zsl, score_map, score_tree, call, ret, aborted, all_ids, indices,
                 documents>>

\* the hop callback of FtSearch on shard sh; hits is what the shard's index matches
FtSearchShard(k, sh, hits) ==
  /\ Runnable(k, sh)
  /\ txq[k].op = "FT.SEARCH"
  /\ txq' = TxSet(k, IF txq[k].index_name \in DOMAIN search_indices[sh]
                     THEN [txq[k] EXCEPT
                             !.ran = @ \cup {sh},
                             !.docs[sh] = ShardSearch(sh, txq[k].params, hits)]
                     ELSE [txq[k] EXCEPT !.ran = @ \cup {sh}, !.index_not_found = TRUE])
  /\ UNCHANGED <<impl, dict, zsl, score_map, score_tree, call, ret, aborted, all_ids, indices,
                 documents, search_indices>>

CreateCallback == \E k \in 1 .. Len(txq), sh \in Shards : FtCreateShard(k, sh)

DropCallback == \E k \in 1 .. Len(txq), sh \in Shards : FtDropIndexShard(k, sh)

SearchCallback ==
  \E k \in 1 .. Len(txq), sh \in Shards :
    /\ txq[k].op = "FT.SEARCH"
    /\ \E hits \in ShardHits(txq[k].query) :
         /\ txq[k].index_name \notin DOMAIN search_indices[sh] => hits = <<>>
         /\ FtSearchShard(k, sh, hits)

\* the hop of transaction k has run on every shard and the coordinator goes on
Concluded(k) ==
  /\ ~aborted
  /\ call = Idle
  /\ k \in 1 .. Len(txq)
  /\ txq[k].ran = Shards

\* FtCreate after ScheduleSingleHop
FtCreateDone(k) ==
  /\ Concluded(k)
  /\ txq[k].op = "FT.CREATE"
  /\ call' = [op |-> "FT.CREATE", args |-> txq[k].args, tx |-> txq[k]]
  /\ ret' = [reply |-> SendOk]
  /\ txq' = TxDone(k)
  /\ UNCHANGED <<impl, dict, zsl, score_map, score_tree, aborted, all_ids, indices, documents,
                 search_indices>>

\* FtDropIndex after ScheduleSingleHop
FtDropIndexDone(k, dcheck) ==
  /\ Concluded(k)
  /\ txq[k].op = "FT.DROPINDEX"
  /\ call' = [op |-> "FT.DROPINDEX", args |-> txq[k].args, tx |-> txq[k]]
  /\ IF dcheck /\ ~(txq[k].num_deleted = 0 \/ txq[k].num_deleted = NumShards)
     THEN aborted' = TRUE /\ ret' = [fatal |-> "DCHECK"]
     ELSE /\ aborted' = FALSE
          /\ ret' = [reply |-> IF txq[k].num_deleted = NumShards THEN SendOk
                               ELSE SendError("Unknown Index name")]
  /\ txq' = TxDone(k)
  /\ UNCHANGED <<impl, dict, zsl, score_map, score_tree, all_ids, indices, documents,
                 search_indices>>

\* FtSearch after ScheduleSingleHop
FtSearchDone(k, sorted, faults) ==
  /\ Concluded(k)
  /\ txq[k].op = "FT.SEARCH"
  /\ call' = [op |-> "FT.SEARCH", args |-> txq[k].args, tx |-> txq[k]]
  /\ LET tx == txq[k]
         knn_limit == HasKnn(tx.query)
     IN IF tx.index_not_found
        THEN /\ ret' = [reply |-> SendError("no such index")]
             /\ aborted' = FALSE
        ELSE IF knn_limit /= None
        THEN LET r == ReplyKnn(knn_limit[1], tx.params, tx.docs, sorted, faults)
             IN IF r.fatal /= ""
                THEN aborted' = TRUE /\ ret' = [fatal |-> r.fatal, reply |-> r.reply]
                ELSE aborted' = FALSE /\ ret' = [reply |-> r.reply]
        ELSE /\ ret' = [reply |-> ReplyWithResults(tx.params, tx.docs)]
             /\ aborted' = FALSE
  /\ txq' = TxDone(k)
  /\ UNCHANGED <<impl, dict, zsl, score_map, score_tree, all_ids, indices, documents,
                 search_indices>>

\* the arrangements partial_sort can leave for transaction k, one (unused)
\* arrangement when it does not sort
SortOutcomes(tx) ==
  IF tx.op = "FT.SEARCH" /\ HasKnn(tx.query) /= None /\ ~tx.index_not_found
  THEN PartialSortOutcomes(ShardOrder(tx.docs, 1),
                           Min2(tx.params.limit_offset + tx.params.limit_total,
                                HasKnn(tx.query)[1]))
  ELSE {<<>>}

CreateDone == \E k \in 1 .. Len(txq) : FtCreateDone(k)

DropDone == \E k \in 1 .. Len(txq), dcheck \in BOOLEAN : FtDropIndexDone(k, dcheck)

SearchDone ==
  \E k \in 1 .. Len(txq) :
    \E sorted \in SortOutcomes(txq[k]), faults \in BOOLEAN : FtSearchDone(k, sorted, faults)

\* FT.CREATE and FT.DROPINDEX from several connections
NextFtIndex ==
  FtCreate \/ FtDropIndex \/ CreateCallback \/ DropCallback \/ CreateDone \/ DropDone \/ Return

SpecFtIndex == InitSearch /\ [][NextFtIndex]_vars

\* the index a successful FT.CREATE idx SCHEMA title TEXT registers
TitleIndex ==
  [EmptyDocIndex EXCEPT !.schema = {[alias |-> "title", identifier |-> "title", type |-> "TEXT"]}]

\* FT.SEARCH on shards where no index was created or where idx was
InitFtSearch ==
  /\ impl = "RdImpl"
  /\ dict = EmptyMap
  /\ zsl = <<>>
  /\ score_map = EmptyMap
  /\ score_tree = <<>>
  /\ call = Idle
  /\ ret = Idle
  /\ aborted = FALSE
  /\ all_ids = <<>>
  /\ indices = EmptyIndices
  /\ documents = EmptyMap
  /\ search_indices \in {[sh \in Shards |-> EmptyMap],
                         [sh \in Shards |-> InitIndex(EmptyMap, "idx", TitleIndex)]}
  /\ txq = <<>>

NextFtSearch == FtSearch \/ SearchCallback \/ SearchDone \/ Return

SpecFtSearch == InitFtSearch /\ [][NextFtSearch]_vars

\* a reply is an error, or an array header followed by exactly the elements it
\* declares (a number is one element, a doc is two: key and field map)
IsError(reply) == Len(reply) = 1 /\ reply[1].t = "err"

IsArray(reply) ==
  /\ Len(reply) >= 1
  /\ reply[1].t = "array"
  /\ \A i \in 2 .. Len(reply) : reply[i].t \in {"long", "doc"}
  /\ reply[1].v = Cardinality({i \in 2 .. Len(reply) : reply[i].t = "long"})
                    + 2 * Cardinality({i \in 2 .. Len(reply) : reply[i].t = "doc"})

\* the argument lists of SearchArgs whose LIMIT or PARAMS is malformed
MalformedSearchArgs ==
  {<<Word("LIMIT"), Num(1)>>,
   <<Word("LIMIT"), Word("x"), Num(1)>>,
   <<Word("LIMIT"), Num(0), Num(0 - 1)>>,
   <<Word("PARAMS"), Num(2), Word("q")>>}

FtSearched == call.op = "FT.SEARCH"

\* C22: FT.SEARCH sends exactly one reply: a parameter error when LIMIT or
\* PARAMS is malformed; otherwise "Query syntax error" when Init returns false,
\* and then no shard is searched; otherwise "no such index" when a shard lacks
\* the index; otherwise the result array
C22_OneReply ==
  FtSearched =>
    LET args == Subspan(call.args, 2)
        query_str == ArgS(call.args, 1)
        hopped == "tx" \in DOMAIN call
    IN /\ ~aborted
       /\ IsError(ret.reply) \/ IsArray(ret.reply)
       /\ IF args \in MalformedSearchArgs
          THEN ret.reply \in {SendError(kSyntaxErr), SendError(kInvalidIntErr)} /\ ~hopped
          ELSE IF query_str.throws \/ query_str.ast = AstEmpty
          THEN ret.reply = SendError("Query syntax error") /\ ~hopped
          ELSE IF \E sh \in Shards : ArgS(call.args, 0).word \notin DOMAIN search_indices[sh]
          THEN ret.reply = SendError("no such index") /\ hopped
          ELSE IsArray(ret.reply) /\ hopped

\* the LIMIT an argument list asks for: the numbers after its LIMIT keyword,
\* LIMIT 0 10 without one
AskedLimit(args) ==
  IF \E i \in 1 .. Len(args) : IsKeyword(args[i], "LIMIT")
  THEN LET i == CHOOSE i \in 1 .. Len(args) : IsKeyword(args[i], "LIMIT")
       IN <<args[i + 1].num, args[i + 2].num>>
  ELSE <<0, 10>>

\* FT.SEARCH replied with a result array
FtSearchReplied(knn) ==
  /\ FtSearched /\ ~aborted
  /\ "tx" \in DOMAIN call
  /\ ~call.tx.index_not_found
  /\ (call.tx.query.type = "Knn") = knn

Max2(a, b) == IF a > b THEN a ELSE b

\* C23: a non-KNN FT.SEARCH reply declares 2*r+1 elements with
\* r = min(max(total_hits - limit_offset, 0), limit_total), starts with the sum
\* of the shards' total_hits and carries exactly the r docs at positions
\* limit_offset .. limit_offset+r-1 of the shards' doc lists put one after the
\* other in shard order, never more than limit_total; LIMIT 0 10 is the default
C23_Reply ==
  FtSearchReplied(FALSE) =>
    LET limit == AskedLimit(Subspan(call.args, 2))
        limit_offset == limit[1]
        limit_total == limit[2]
        results == call.tx.docs
        total_hits == TotalHits(results, 1)
        all == ShardOrder(results, 1)
        r == Min2(Max2(total_hits - limit_offset, 0), limit_total)
        reply == ret.reply
    IN /\ reply[1] = [t |-> "array", v |-> 2 * r + 1]
       /\ reply[2] = [t |-> "long", v |-> total_hits]
       /\ Len(reply) = r + 2
       /\ r <= limit_total
       /\ \A i \in 1 .. r : reply[i + 2] = [t |-> "doc", v |-> all[limit_offset + i]]

\* a search with LIMIT 1 2 found more than three docs on the shards and its
\* reply carries a doc of the first shard and a doc of the second
C23_Witness ==
  /\ FtSearchReplied(FALSE)
  /\ AskedLimit(Subspan(call.args, 2)) = <<1, 2>>
  /\ TotalHits(call.tx.docs, 1) > 3
  /\ Len(ret.reply) = 4
  /\ ret.reply[3].v.key[1] = 1
  /\ ret.reply[4].v.key[1] = 2

\* the distances of a doc list, sorted ascending
RECURSIVE SortedDistances(_)
SortedDistances(docs) ==
  IF docs = <<>> THEN <<>>
  ELSE LET rest == SortedDistances(Tail(docs))
           d == Head(docs).knn_distance
       IN InsertAt(rest, 1 + Cardinality({i \in 1 .. Len(rest) : rest[i] < d}), d)

\* C24: a KNN FT.SEARCH reply orders the candidate docs of all shards by
\* ascending distance, truncates the list to min(limit, limit_offset +
\* limit_total) entries, reports the size of the truncated list as the total and
\* sends the docs of the window [limit_offset, limit_offset + limit_total) of it
C24_KnnReply ==
  (FtSearched /\ "tx" \in DOMAIN call /\ ~call.tx.index_not_found
     /\ call.tx.query.type = "Knn") =>
    LET limit == AskedLimit(Subspan(call.args, 2))
        limit_offset == limit[1]
        limit_total == limit[2]
        candidates == ShardOrder(call.tx.docs, 1)
        ordered == SortedDistances(candidates)
        size == Min2(Len(ordered), Min2(call.tx.query.limit, limit_offset + limit_total))
        r == Min2(Max2(size - limit_offset, 0), limit_total)
        reply == ret.reply
    IN /\ ~aborted
       /\ IsArray(reply)
       /\ reply[2] = [t |-> "long", v |-> size]
       /\ Len(reply) = r + 2
       /\ \A i \in 1 .. r :
            /\ reply[i + 2].v \in Elems(candidates)
            /\ reply[i + 2].v.knn_distance = ordered[limit_offset + i]
       /\ \A i, j \in 1 .. r : i /= j => reply[i + 2] /= reply[j + 2]

\* no hop is under way: every scheduled command has run on no shard or on all
NoHopUnderWay == \A k \in 1 .. Len(txq) : txq[k].ran = {} \/ txq[k].ran = Shards

\* an index name is registered on every shard, with the same index, or on none
OnAllOrNone(idx_name) ==
  \/ \A sh \in Shards : idx_name \notin DOMAIN search_indices[sh]
  \/ \A sh \in Shards :
       /\ idx_name \in DOMAIN search_indices[sh]
       /\ search_indices[sh][idx_name] = search_indices[1][idx_name]

C30_NoFreedRead ==
  [][Calls("PopTopScores") /\ impl = "RdImpl"
       => \A outs \in FreedReadOutcomes(call'.count) :
            RdPopTopScores(dict, zsl, call'.count, call'.reverse, outs).freed_reads = 0]_vars

\* the position of the step that frees obj, 0 when no step does
FreedAt(steps, obj) ==
  IF \E i \in 1 .. Len(steps) : obj \in steps[i].frees
  THEN CHOOSE i \in 1 .. Len(steps) : obj \in steps[i].frees
  ELSE 0

\* a step reads an object an earlier step freed
ReadsFreed(steps) ==
  \E i, j \in 1 .. Len(steps) : i < j /\ steps[i].frees \cap steps[j].reads /= {}

\* the order structure without member m
OrderWithout(m) == SelectSeq(Order, LAMBDA node : node.ele /= m)

\* C26: Delete of a present member returns true and leaves the member in neither
\* the map nor the order structure, all else as it was; the skiplist variant
\* frees the hash-map entry before the skiplist node and the string it owns, and
\* reads nothing it freed.  Delete of an absent member returns false and changes
\* neither structure.  The B+tree variant has the same result and effect.
C26_Delete ==
  [][Calls("Delete")
       => LET m == call'.ele
              steps == RdDelete(dict, zsl, m).steps
          IN /\ ~aborted'
             /\ IF m \in DOMAIN MemberMap
                THEN /\ ret'.ret = TRUE
                     /\ MemberMap' = DictDel(MemberMap, m)
                     /\ Order' = OrderWithout(m)
                     /\ Len(Order') = Len(Order) - 1
                     /\ impl = "RdImpl" =>
                          /\ FreedAt(steps, "entry") > 0
                          /\ FreedAt(steps, "entry") < FreedAt(steps, "node")
                          /\ FreedAt(steps, "node") = FreedAt(steps, "ele")
                          /\ ~ReadsFreed(steps)
                     /\ impl = "DfImpl" =>
                          TreeDelete(score_tree, FindObj(score_map, m)[1]).deleted
                ELSE /\ ret'.ret = FALSE
                     /\ MemberMap' = MemberMap
                     /\ Order' = Order
                     /\ impl = "RdImpl" => \A i \in 1 .. Len(steps) : steps[i].frees = {}]_vars

\* a Delete of a present member has returned in the skiplist variant, with
\* another member left in the set
C26_Witness ==
  /\ impl = "RdImpl"
  /\ call.op = "Delete"
  /\ ret.ret = TRUE
  /\ Len(zsl) >= 1

\* the elements Iterate is to visit from rank start_rank on, in visiting order
IterateFrom(start_rank, reverse) ==
  [i \in 1 .. (Len(Order) - start_rank) |->
     Pair(Order[IF reverse THEN Len(Order) - start_rank - i + 1 ELSE start_rank + i])]

\* the first of the calls 1 .. n at which cb returns false, 0 when there is none
FirstFalse(cb, n) ==
  IF \E k \in 1 .. n : ~cb[k]
  THEN CHOOSE k \in 1 .. n : ~cb[k] /\ \A j \in 1 .. (k - 1) : cb[j]
  ELSE 0

\* what the claim says of an Iterate step
IterateAsClaimed ==
  LET todo == IterateFrom(call'.start_rank, call'.reverse)
      most == Min2(call'.len, Len(todo))
      stop == FirstFalse(call'.cb, most)
  IN /\ ~aborted'
     /\ ret'.calls = SubSeq(todo, 1, IF stop > 0 THEN stop ELSE most)
     /\ ret'.ret = (stop = 0)
     /\ Content' = Content

\* C27: Iterate(start_rank, len, reverse, cb) with start_rank < size calls cb on
\* consecutive elements from rank start_rank on, from the head or from the tail
\* when reverse, stops after the first call that returns false, after len calls
\* or at the end of the sequence, returns false iff a call returned false, and
\* leaves the set as it was
C27_Iterate ==
  [][Calls("Iterate") /\ call'.start_rank < Len(Order) => IterateAsClaimed]_vars

\* C27 for calls with len > 0
C27_IterateSome ==
  [][Calls("Iterate") /\ call'.start_rank < Len(Order) /\ call'.len > 0
       => IterateAsClaimed]_vars

\* C27 as the skiplist variant has it
C27_RdIterate ==
  [][Calls("Iterate") /\ call'.start_rank < Len(Order) /\ impl = "RdImpl"
       => IterateAsClaimed]_vars

\* the sign of a comparison result
Sign(n) == IF n < 0 THEN 0 - 1 ELSE IF n > 0 THEN 1 ELSE 0

\* C28: on untagged tree keys the comparator is a strict total order by
\* (score, member bytes); a bound key built for score s with the +inf tag
\* compares greater than every tree key of score <= s and less than every tree
\* key of score > s; a bound key built without the tag compares less than or
\* equal to every tree key of score >= s and greater than every one of score < s
C28_Comparator ==
  (call.op = "KeyCompareTo") =>
    LET a == call.a
        b == call.b
        r == ret.ret
    IN /\ (a \in TreeKeys /\ b \in TreeKeys) =>
            /\ (r < 0) = Precedes(a.score, a.ele, b.score, b.ele)
            /\ (r > 0) = Precedes(b.score, b.ele, a.score, a.ele)
            /\ (r = 0) = (a = b)
            /\ Sign(KeyCompareTo(b, a)) = 0 - Sign(r)
            /\ \A c \in TreeKeys : (r < 0 /\ KeyCompareTo(b, c) < 0) => KeyCompareTo(a, c) < 0
       /\ (a \in BoundKeys /\ a.kInfTag /\ b \in TreeKeys) =>
            /\ (b.score <= a.score) => r > 0
            /\ (b.score > a.score) => r < 0
            /\ Sign(KeyCompareTo(b, a)) = 0 - Sign(r)
       /\ (a \in BoundKeys /\ ~a.kInfTag /\ b \in TreeKeys) =>
            /\ (b.score >= a.score) => r <= 0
            /\ (b.score < a.score) => r > 0
            /\ Sign(KeyCompareTo(b, a)) = 0 - Sign(r)

\* a bound key tagged +inf was compared with a tree key of its own score and a
\* non-empty member, and came out greater
C28_Witness ==
  /\ call.op = "KeyCompareTo"
  /\ call.a = BuilScoredKey(1, TRUE)
  /\ call.b \in TreeKeys
  /\ call.b.score = 1
  /\ call.b.ele /= <<>>
  /\ ret.ret > 0

\* the SCHEMA keyword is the last argument of an FT.CREATE: no field follows
SchemaLast(args) == Len(args) >= 2 /\ IsKeyword(args[Len(args)], "SCHEMA")

\* C29: an FT.CREATE whose SCHEMA keyword is its last argument replies with the
\* error "Empty schema" and registers no index: it schedules no hop
C29_EmptySchema ==
  /\ (call.op = "FT.CREATE" /\ SchemaLast(call.args)) =>
       ret.reply = SendError("Empty schema")
  /\ \A k \in 1 .. Len(txq) : txq[k].op = "FT.CREATE" => ~SchemaLast(txq[k].args)

\* C31: Insert(score, member) of a member that is already present leaves the
\* member map and the order structure as they were (no second entry for the
\* member, stored score and ordering intact) and returns false in the skiplist
\* variant
C31_InsertPresent ==
  [][Calls("Insert") /\ call'.ele \in DOMAIN MemberMap
       => /\ MemberMap' = MemberMap
          /\ Order' = Order
          /\ impl = "RdImpl" => ret'.ret = FALSE]_vars

\* C31 for the return value alone: the skiplist variant returns false
C31_RdReturnsFalse ==
  [][Calls("Insert") /\ call'.ele \in DOMAIN MemberMap /\ impl = "RdImpl"
       => /\ ret'.ret = FALSE
          /\ dict' = dict]_vars

\* C32: whatever the number n of candidate docs and knn_limit, limit_offset and
\* limit_total are, ReplyKnn sorts and windows only positions inside the
\* candidate list: the partial-sort boundary is at most n, the window start
\* limit_offset is at most the size of the truncated list, and the reply is a
\* well-formed, possibly empty, window
C32_KnnInside ==
  (FtSearched /\ "tx" \in DOMAIN call /\ ~call.tx.index_not_found
     /\ HasKnn(call.tx.query) /= None) =>
    LET knn_limit == HasKnn(call.tx.query)[1]
        params == call.tx.params
        n == Len(ShardOrder(call.tx.docs, 1))
        middle == Min2(params.limit_offset + params.limit_total, knn_limit)
        size == Min2(n, knn_limit)
    IN /\ middle <= n
       /\ params.limit_offset <= size
       /\ ~aborted
       /\ IsArray(ret.reply)
       /\ ret.reply[1].v = 2 * (Len(ret.reply) - 2) + 1

=============================================================================
